---- MODULE Spec2Model ----
(***************************************************************************)
(* CanX: frame reader (CANIF/RWThread/CANReaderThread.py), frame scheduler *)
(* (CANIF/RWThread/CANWriterScheduler.py), CAN-TP session                  *)
(* (CANTP/session.py, CANTP/Frame.py, COMMON/Cast.py), DBC adapter         *)
(* (E2E/DbcAdapter.py, E2E/crc.py), diagnostic helper (COMDIAG/ComDia.py)  *)
(* and trace queue (CANIF/CANInterface.py) as state machines.              *)
(***************************************************************************)
EXTENDS Integers, Sequences, FiniteSets, TLC

(***************************************************************************)
(* Bounds of the model.                                                    *)
(***************************************************************************)
MaxFrames == 2
MaxCallbacks == 2
ClockStep == 30
MaxClock == 60
MaxLen == 22
MaxEnvFrames == 2
MaxPerf == 3
MaxTriggers == 2
Period == 2
DurationArg == 1
MaxStopCalls == 2
MaxMonotonic == 3
MaxSends == 2
flow_control_timeout_ms == 2

None == "None"
Ids == {1}
Names == {"A"}
\* user callbacks; RaisingCbs raise an Exception whenever they are invoked
BurstCounts == {1, 2}
Cbs == {"cbOk", "cbRaise"}
RaisingCbs == {"cbRaise"}

VARIABLES
    \* ---- CANReaderThread ----
    default_queue,      \* queue.Queue of frames
    id_queues,          \* dict id -> deque (entries created on first use)
    named_id_queues,    \* dict id -> dict name -> deque
    latest_msgs,        \* dict id -> frame
    subscribe_ids,      \* set of ids
    callbacks,          \* dict id -> list of callbacks
    id_last_seen,       \* dict id -> time
    clock,              \* time.time()
    nrecv,              \* number of frames bus.recv has returned
    rd_pc,              \* position of run(): "recv", "put", "cb", "dead"
    rd_msg,             \* local msg of run()
    rd_callbacks,       \* local snapshot callbacks of run()
    rd_idx,             \* index of the for-loop over the snapshot
    rd_lock,            \* CANReaderThread.lock: "free", or "run" while run() holds it
    cb_called,          \* the callback being invoked has made its call into the reader
    \* ---- observation ----
    invoked,            \* callbacks invoked so far with rd_msg, in order
    lastOp              \* the reader operation that completed last

readerVars == <<default_queue, id_queues, named_id_queues, latest_msgs,
                subscribe_ids, callbacks, id_last_seen, clock, nrecv,
                rd_pc, rd_msg, rd_callbacks, rd_idx, invoked,
                lastOp, rd_lock, cb_called>>

VARIABLES
    \* ---- MessageTask / SmartCanMessageScheduler ----
    tasks,              \* SmartCanMessageScheduler.tasks: the ids in the table
    period,             \* MessageTask.period
    duration,           \* MessageTask.duration (deadline), NoDuration for None
    running,            \* MessageTask.running
    stop_event,         \* threading.Event
    pause_event,        \* threading.Event (set: not paused)
    wake_event,         \* threading.Event
    in_burst_mode,
    burst_count,
    next_periodic_time,
    perf_counter,       \* time.perf_counter()
    t_pc,               \* position of _send_loop
    t_now,              \* local now of _send_loop
    t_i,                \* iterations done of "for _ in range(self.burst_count)"
    t_n,                \* length of that range, fixed when the loop starts
    t_deadline,         \* perf_counter value at which wake_event.wait times out
    exit_reason,        \* why _send_loop left its while loop
    st_pc,              \* position of a stop_message() / stop() call
    st_after_exit,      \* that call started after _send_loop had exited
    bn_pc,              \* position of a trigger_burst caller in _burst_now
    bn_i,               \* index of the loop of _burst_now
    bn_n,               \* count of _burst_now
    pz_pc,              \* position of a SmartCanMessageScheduler.pause() call
    sa_pc,              \* position of a stop_all() call that found no task
    noop_stops,         \* stop_message()/stop_all() calls that found no task
    added,              \* the tasks add_message() created after the first one
    \* ---- observation ----
    sent,               \* log of the frames handed to bus.send by this task
    accepted,           \* sum of count over the trigger_burst calls accepted
    n_triggers,         \* number of trigger_burst calls made
    used_pause,         \* pause() has been called
    used_burst,         \* trigger_burst() has been called
    paused_sends,       \* frames _send_loop sent since the last pause(), gate clear
    early               \* a periodic frame was sent before next_periodic_time

schedVars == <<tasks, period, duration, running, stop_event, pause_event,
               wake_event, in_burst_mode, burst_count, next_periodic_time,
               perf_counter, t_pc, t_now, t_i, t_n, t_deadline, exit_reason,
               st_pc, st_after_exit, bn_pc, bn_i, bn_n, sent, accepted,
               n_triggers, used_pause, used_burst, paused_sends, early,
               pz_pc, sa_pc, noop_stops, added>>

\* the calls of stop_message() and stop_all() that find nothing to stop
stopVars == <<sa_pc, noop_stops, added>>

\* CANTPSession objects over the loopback bus
VARIABLES
    tp_D,               \* the byte sequence handed to send
    ecu_id,             \* per session: the id it writes to
    tester_id,          \* per session: the id it listens on
    session_of,         \* per caller: the CANTPSession object its calls are made on
    bus_rx,             \* MockBus.rx_queue
    tp_subs,            \* the reader's callbacks[id]: session callbacks, in order
    opened,             \* sessions that have been constructed
    closed,             \* per session: _closed
    rx_buffer,          \* per session: _rx_buffer
    rx_flow_control,    \* per session: _rx_flow_control
    tx_pc,              \* per session: position of a send call
    tx_remain,          \* remain_data of send
    tx_sn,              \* sequence_number of send
    tx_block_size,      \* block_size of send
    tx_frames_in_block, \* frames_in_block of send
    tx_result,          \* value returned by send
    rx_pc,              \* per session: position of a receive call
    rx_total,           \* total_length of receive
    rx_data,            \* data of receive
    rx_result,          \* value returned by receive
    nfed,               \* per session: frames its callback appended
    npopped,            \* per session: frames its own calls popped
    tp_now,             \* time.monotonic(), in units of the model
    fc_start,           \* per session: start of _wait_for_flow_control
    fc_began,           \* per session: the time its current wait for FC began
    tx_st_min,          \* per session: st_min_seconds of send, in microseconds
    tx_log,             \* per session: the frames it handed to CANInterface.write
    n_env               \* frames put on the bus by the ECU side

tpVars == <<tp_D, ecu_id, tester_id, session_of, rx_flow_control, bus_rx, tp_subs,
            opened, closed, rx_buffer, tx_pc, tx_remain, tx_sn, tx_block_size,
            tx_frames_in_block, tx_result, rx_pc, rx_total, rx_data,
            rx_result, nfed, npopped, tx_log, n_env, tp_now, fc_start,
            fc_began, tx_st_min>>

\* the clock of the sessions and what a sender keeps about flow control
fcVars == <<tp_now, fc_start, fc_began, tx_st_min>>

VARIABLES
    on_event,          \* messages_atrributes[m]["On_event"]
    current_signals,   \* current_signals[m]: signal name -> value
    signal_queues,     \* signal_queues[m]: deque(maxlen=1) of update records
    gp_pc,             \* get_payload: "idle", or "crc" between its lock sections
    signals_snapshot,  \* get_payload's local copy of current_signals[m]
    gp_payload,        \* the bytes the last get_payload returned
    n_calls,           \* adapter calls so far
    quiet,             \* get_payload calls begun since the last push_signals or reset (at most 2)
    last_push,         \* the last push_signals since the last reset, if any
    gp_push,           \* last_push when the running get_payload took its snapshot
    gp_clean,          \* reset_clean when the running get_payload began
    reset_clean,       \* a reset happened and no call has begun since
    last_call          \* the last push_signals call with a batch, and how it ended

dbcVars == <<on_event, current_signals, signal_queues, gp_pc, signals_snapshot,
             gp_payload, n_calls, quiet, last_push, gp_push, gp_clean,
             reset_clean, last_call>>

VARIABLES
    dg_req,        \* raw_msg of the send_and_received in progress
    dg_script,     \* the responses the ECU gives to the request, in order
    dg_idx,        \* how many of them have arrived
    dg_rx,         \* response PDUs cantp.receive has not returned yet
    dg_pc,         \* send_and_received: "idle", "recv" (in self.receive), "done"
    dg_send,       \* what self.send returned
    dg_now,        \* time.time(), in ms
    dg_start,      \* start_time of send_and_received
    dg_rstart,     \* when the cantp.receive in progress was called
    dg_result,     \* what send_and_received returned (<<>> is None)
    dg_timed_out,  \* a cantp.receive of this call has returned []
    ul_pc,         \* unlock_security: "idle", "seed", "get_key", "key", "done"
    ul_sent,       \* the requests unlock_security has issued, in order
    ul_seed_recv,  \* the response to the seed request (<<>> is None)
    ul_key,        \* how the key generation ended
    ul_key_recv,   \* the response to the key request (<<>> is None)
    ul_result,     \* "True", "False" or the exception unlock_security raised
    keep_alive,    \* ComDiag.keep_alive
    ka_thread,     \* ComDiag.thread: 0 is None, else the thread created last
    ka_pc,         \* per loop thread: "none", "check", "send", "sleep", "dead"
    ka_wake,       \* per loop thread: the time its time.sleep ends
    ka_sent,       \* per loop thread: <<>> or <<number of 3E 80 sent, time of the last>>
    ka_now,        \* the clock
    ka_ctl,        \* the caller: "idle", or "join" inside stop_tester_present
    ka_calls,      \* number of start/stop calls made
    ka_stopped,    \* stop_tester_present has returned and no start since
    ka_total       \* <<number of 3E 80 sent, that number when stop returned>>

ulVars == <<ul_pc, ul_sent, ul_seed_recv, ul_key, ul_key_recv, ul_result>>

kaVars == <<keep_alive, ka_thread, ka_pc, ka_wake, ka_sent, ka_now, ka_ctl,
           ka_calls, ka_stopped, ka_total>>

diagVars == <<dg_req, dg_script, dg_idx, dg_rx, dg_pc, dg_send, dg_now,
              dg_start, dg_rstart, dg_result, dg_timed_out, ulVars, kaVars>>
\* the trace fan-out of CANInterface
VARIABLES
    trace_queue,           \* CANInterface.trace_queue, oldest entry first
    trace_enqueued_count,  \* CANInterface.trace_enqueued_count
    trace_dropped_count,   \* CANInterface.trace_dropped_count
    tr_pc,                 \* per tracing thread: its position in _bounded_put
    tr_item,               \* per tracing thread: the frame it is tracing
    tr_tmp,                \* per tracing thread: the counter value it has read
    tr_next,               \* number of the next frame traced
    tr_full_calls,         \* number of _bounded_put calls that found the queue full
    tr_lost,               \* frames whose _bounded_put returned False
    tr_consumed            \* number of entries the file writer has taken

traceVars == <<trace_queue, trace_enqueued_count, trace_dropped_count, tr_pc,
               tr_item, tr_tmp, tr_next, tr_full_calls, tr_lost, tr_consumed>>
\* one call of add_padding
VARIABLES
    pad_in,     \* input_arr
    pad_fill,   \* int(padding, 16)
    pad_out     \* <<>> before the call, <<outdata>> after it

padVars == <<pad_in, pad_fill, pad_out>>

vars == <<readerVars, schedVars, tpVars, dbcVars, diagVars, traceVars, padVars>>

(***************************************************************************)
(* dict helpers                                                            *)
(***************************************************************************)
DictSet(d, k, v) == [x \in DOMAIN d \cup {k} |-> IF x = k THEN v ELSE d[x]]
DictPop(d, k) == [x \in DOMAIN d \ {k} |-> d[x]]
DictGet(d, k, dflt) == IF k \in DOMAIN d THEN d[k] ELSE dflt
EmptyDict == <<>>

RECURSIVE CountIn(_, _)
CountIn(x, s) ==
    IF s = <<>> THEN 0
    ELSE (IF Head(s) = x THEN 1 ELSE 0) + CountIn(x, Tail(s))

NoOp == [op |-> "none"]
\* no other thread has acted on the reader since run() received rd_msg
Quiet(op) == op.op = "recv"
\* "no frame": what a Python None stands for where a frame is expected
NoMsg == [id |-> 0, n |-> 0, data |-> <<>>]

(***************************************************************************)
(* CANReaderThread                                                         *)
(***************************************************************************)
id_timeout_default == 30
id_timeout == EmptyDict

ReaderInit ==
    /\ default_queue = <<>>
    /\ id_queues = EmptyDict
    /\ named_id_queues = EmptyDict
    /\ latest_msgs = EmptyDict
    /\ subscribe_ids = {}
    /\ callbacks = EmptyDict
    /\ id_last_seen = EmptyDict
    /\ clock = 0
    /\ nrecv = 0
    /\ rd_pc = "recv"
    /\ rd_msg = NoMsg
    /\ rd_callbacks = <<>>
    /\ rd_idx = 0
    /\ invoked = <<>>
    /\ lastOp = NoOp
    /\ rd_lock = "free"
    /\ cb_called = FALSE

\* the named buffer of subscribe(): cleared when present, created otherwise
SubscribeNamed_Reuse(queues_for_id, queue_name) ==
    IF queue_name \in DOMAIN queues_for_id
    THEN queues_for_id
    ELSE DictSet(queues_for_id, queue_name, <<>>)

SubscribeNamed(queues_for_id, queue_name) ==
    IF queue_name \in DOMAIN queues_for_id
    THEN [queues_for_id EXCEPT ![queue_name] = <<>>]
    ELSE DictSet(queues_for_id, queue_name, <<>>)

subscribe(msg_key, callback, queue_name) ==
    /\ callback # None => Len(DictGet(callbacks, msg_key, <<>>)) < MaxCallbacks
    /\ subscribe_ids' = subscribe_ids \cup {msg_key}
    /\ callbacks' = IF callback # None
                    THEN DictSet(callbacks, msg_key,
                                 Append(DictGet(callbacks, msg_key, <<>>), callback))
                    ELSE callbacks
    /\ named_id_queues' =
         IF queue_name # None
         THEN DictSet(named_id_queues, msg_key,
                      SubscribeNamed(DictGet(named_id_queues, msg_key, EmptyDict),
                                     queue_name))
         ELSE named_id_queues
    /\ lastOp' = [op |-> "subscribe", id |-> msg_key, name |-> queue_name,
                  stale |-> /\ queue_name # None
                            /\ msg_key \in DOMAIN named_id_queues
                            /\ queue_name \in DOMAIN named_id_queues[msg_key]
                            /\ named_id_queues[msg_key][queue_name] # <<>>]
    /\ UNCHANGED <<default_queue, id_queues, latest_msgs, id_last_seen, clock,
                   nrecv, rd_pc, rd_msg, rd_callbacks, rd_idx, invoked>>
    /\ UNCHANGED <<schedVars, tpVars, dbcVars, diagVars, traceVars, padVars>>

unsubscribe(msg_key, queue_name) ==
    /\ subscribe_ids' = subscribe_ids \ {msg_key}
    /\ callbacks' = DictPop(callbacks, msg_key)
    /\ IF queue_name # None
       THEN /\ named_id_queues' =
                 IF msg_key \in DOMAIN named_id_queues
                 THEN LET popped == DictPop(named_id_queues[msg_key], queue_name)
                      IN  IF DOMAIN popped = {}
                          THEN DictPop(named_id_queues, msg_key)
                          ELSE [named_id_queues EXCEPT ![msg_key] = popped]
                 ELSE named_id_queues
            /\ UNCHANGED id_queues
       ELSE /\ id_queues' = DictPop(id_queues, msg_key)
            /\ UNCHANGED named_id_queues
    /\ latest_msgs' = DictPop(latest_msgs, msg_key)
    /\ lastOp' = NoOp
    /\ UNCHANGED <<default_queue, id_last_seen, clock, nrecv, rd_pc, rd_msg,
                   rd_callbacks, rd_idx, invoked>>
    /\ UNCHANGED <<schedVars, tpVars, dbcVars, diagVars, traceVars, padVars>>

\* the queue get_from_id() looks at; an unregistered queue ("not queue")
\* is indistinguishable from an empty one for the caller
LookupQueue(message_id, queue_name) ==
    IF queue_name # None
    THEN IF /\ message_id \in DOMAIN named_id_queues
            /\ queue_name \in DOMAIN named_id_queues[message_id]
         THEN named_id_queues[message_id][queue_name]
         ELSE <<>>
    ELSE DictGet(id_queues, message_id, <<>>)

\* the value get_from_id() returns (both for pop=True and pop=False)
get_from_id_result(message_id, queue_name) ==
    LET queue == LookupQueue(message_id, queue_name)
    IN  IF queue = <<>> THEN NoMsg ELSE Head(queue)

\* get_from_id(msg_id, pop=True, queue_name): a call that returns a frame
get_from_id(message_id, queue_name) ==
    /\ get_from_id_result(message_id, queue_name) # NoMsg
    /\ IF queue_name # None
       THEN /\ named_id_queues' =
                 [named_id_queues EXCEPT ![message_id][queue_name] = Tail(@)]
            /\ UNCHANGED id_queues
       ELSE /\ id_queues' = [id_queues EXCEPT ![message_id] = Tail(@)]
            /\ UNCHANGED named_id_queues
    /\ lastOp' = NoOp
    /\ UNCHANGED <<default_queue, latest_msgs, subscribe_ids, callbacks,
                   id_last_seen, clock, nrecv, rd_pc, rd_msg, rd_callbacks,
                   rd_idx, invoked>>
    /\ UNCHANGED <<schedVars, tpVars, dbcVars, diagVars, traceVars, padVars>>

\* get_from_default(): a call that returns a frame
get_from_default ==
    /\ default_queue # <<>>
    /\ default_queue' = Tail(default_queue)
    /\ lastOp' = NoOp
    /\ UNCHANGED <<id_queues, named_id_queues, latest_msgs, subscribe_ids,
                   callbacks, id_last_seen, clock, nrecv, rd_pc, rd_msg,
                   rd_callbacks, rd_idx, invoked>>
    /\ UNCHANGED <<schedVars, tpVars, dbcVars, diagVars, traceVars, padVars>>

\* "now - id_last_seen[msg_id] > msg_timeout" of cleanup_old_queues()
IsStale(msg_id, now) ==
    LET msg_timeout == IF msg_id \in DOMAIN id_timeout
                       THEN id_timeout[msg_id] ELSE id_timeout_default
    IN  now - id_last_seen[msg_id] > msg_timeout

StaleIds == {msg_id \in DOMAIN id_last_seen : IsStale(msg_id, clock)}

\* what one reaper pass leaves of the per-ID queues
CleanupIdQueues(stale) ==
    [i \in DOMAIN id_queues \ (stale \ subscribe_ids) |->
        IF i \in stale THEN <<>> ELSE id_queues[i]]

\* what one reaper pass leaves of the named queues
CleanupNamedQueues_DropAll(stale) ==
    [i \in DOMAIN named_id_queues \ stale |-> named_id_queues[i]]

CleanupNamedQueues(stale) ==
    [i \in DOMAIN named_id_queues \ (stale \ subscribe_ids) |->
        IF i \in stale
        THEN [nm \in DOMAIN named_id_queues[i] |-> <<>>]
        ELSE named_id_queues[i]]

\* one pass of the reaper loop, under the lock (a pass that finds a stale id)
cleanup_old_queues ==
    LET stale == StaleIds
    IN  /\ stale # {}
        /\ id_queues' = CleanupIdQueues(stale)
        /\ named_id_queues' = CleanupNamedQueues(stale)
        /\ subscribe_ids' = subscribe_ids
        /\ latest_msgs' = [i \in DOMAIN latest_msgs \ stale |-> latest_msgs[i]]
        /\ id_last_seen' = [i \in DOMAIN id_last_seen \ stale |-> id_last_seen[i]]
        /\ lastOp' = [op |-> "cleanup", stale |-> stale,
                      cleared |-> {i \in stale \cap subscribe_ids :
                                     /\ i \in DOMAIN named_id_queues
                                     /\ \E nm \in DOMAIN named_id_queues[i] :
                                           named_id_queues[i][nm] # <<>>},
                      dropped |-> {i \in stale \ subscribe_ids :
                                     i \in DOMAIN named_id_queues}]
            /\ UNCHANGED <<default_queue, callbacks, clock, nrecv, rd_pc, rd_msg,
                       rd_callbacks, rd_idx, invoked>>
            /\ UNCHANGED <<schedVars, tpVars, dbcVars, diagVars, traceVars, padVars>>

\* time passes
Tick ==
    /\ clock + ClockStep <= MaxClock
    /\ clock' = clock + ClockStep
    /\ UNCHANGED <<default_queue, id_queues, named_id_queues, latest_msgs,
                   subscribe_ids, callbacks, id_last_seen, nrecv, rd_pc, rd_msg,
                   rd_callbacks, rd_idx, invoked,
                   lastOp>>
    /\ UNCHANGED <<schedVars, tpVars, dbcVars, diagVars, traceVars, padVars>>

\* run(), lines 164-170: what the locked section appends to the named queues
StoreNamed_Skip(msg) == named_id_queues

StoreNamed(msg) ==
    IF msg.id \in DOMAIN named_id_queues
    THEN [named_id_queues EXCEPT ![msg.id] =
            [nm \in DOMAIN @ |-> Append(@[nm], msg)]]
    ELSE named_id_queues

\* run(), line 170: the snapshot of the callbacks
SnapshotCallbacks(msg_id) ==
    IF msg_id \in subscribe_ids THEN DictGet(callbacks, msg_id, <<>>) ELSE <<>>

\* run(), lines 160-170: bus.recv returned msg; the locked section
Store(msg) ==
    /\ rd_pc = "recv"
    /\ rd_msg' = msg
    /\ latest_msgs' = DictSet(latest_msgs, msg.id, msg)
    /\ id_last_seen' = DictSet(id_last_seen, msg.id, clock)
    /\ id_queues' = DictSet(id_queues, msg.id,
                            Append(DictGet(id_queues, msg.id, <<>>), msg))
    /\ named_id_queues' = StoreNamed(msg)
    /\ rd_callbacks' = SnapshotCallbacks(msg.id)
    /\ rd_idx' = 0
    /\ rd_pc' = "put"
    /\ invoked' = <<>>
    /\ lastOp' = [op |-> "recv"]
    /\ UNCHANGED <<default_queue, subscribe_ids, callbacks, clock>>
    /\ UNCHANGED <<schedVars, tpVars, dbcVars, diagVars, traceVars, padVars>>

\* a frame arrives from the hardware bus
RecvFromEnv ==
    /\ nrecv < MaxFrames
    /\ \E i \in Ids :
          Store([id |-> i, n |-> nrecv + 1, data |-> <<>>])
    /\ nrecv' = nrecv + 1

\* run(), line 172: default_queue.put(msg), outside the lock
Put ==
    /\ rd_pc = "put"
    /\ default_queue' = Append(default_queue, rd_msg)
    /\ rd_pc' = IF rd_callbacks = <<>> THEN "recv" ELSE "cb"
    /\ rd_idx' = 1
    /\ UNCHANGED <<id_queues, named_id_queues, latest_msgs, subscribe_ids,
                   callbacks, id_last_seen, clock, nrecv, rd_msg, rd_callbacks,
                   invoked, lastOp>>
    /\ UNCHANGED <<schedVars, tpVars, dbcVars, diagVars, traceVars, padVars>>

\* run(), lines 174-177: where the loop stands after cb(msg) returned or raised
AfterCallback_Propagate(raised, idx, n) ==
    IF raised THEN "dead" ELSE IF idx < n THEN "cb" ELSE "recv"

AfterCallback(raised, idx, n) ==
    IF idx < n THEN "cb" ELSE "recv"

\* run(), lines 173-177: one iteration of the loop over the snapshot
InvokeCallback ==
    /\ rd_pc = "cb"
    /\ LET cb == rd_callbacks[rd_idx]
           raised == cb \in RaisingCbs
       IN  /\ invoked' = Append(invoked, cb)
           /\ rd_pc' = AfterCallback(raised, rd_idx, Len(rd_callbacks))
    /\ rd_idx' = rd_idx + 1
    /\ UNCHANGED <<default_queue, id_queues, named_id_queues, latest_msgs,
                   subscribe_ids, callbacks, id_last_seen, clock, nrecv, rd_msg,
                   rd_callbacks, lastOp>>
    /\ UNCHANGED <<schedVars, tpVars, dbcVars, diagVars, traceVars, padVars>>

\* the lock and the call a callback makes into the reader
lockVars == <<rd_lock, cb_called>>

\* every locked section as one step: the lock is free between the steps
ReaderNext ==
    \/ /\ \E i \in Ids, cb \in Cbs \cup {None}, nm \in Names \cup {None} :
             subscribe(i, cb, nm)
       /\ UNCHANGED lockVars
    \/ /\ \E i \in Ids, nm \in Names \cup {None} : unsubscribe(i, nm)
       /\ UNCHANGED lockVars
    \/ /\ \E i \in Ids, nm \in Names \cup {None} : get_from_id(i, nm)
       /\ UNCHANGED lockVars
    \/ get_from_default /\ UNCHANGED lockVars
    \/ cleanup_old_queues /\ UNCHANGED lockVars
    \/ Tick /\ UNCHANGED lockVars
    \/ RecvFromEnv /\ UNCHANGED lockVars
    \/ Put /\ UNCHANGED lockVars
    \/ InvokeCallback /\ UNCHANGED lockVars

(***************************************************************************)
(* The same reader with its lock made explicit, and callbacks that call    *)
(* back into the reader: cbSubscribe subscribes a named queue for the id   *)
(* of the frame, cbUnsubscribe unsubscribes the id, cbGet pops the frame   *)
(* from the id's queue.  threading.Lock is not reentrant: a call made      *)
(* while the lock is held waits, whoever holds it.                         *)
(***************************************************************************)
ApiCbs == {"cbSubscribe", "cbUnsubscribe", "cbGet"}

\* run(), line 163: "with self.lock" is entered for the frame bus.recv
\* returned
run_acquire ==
    /\ rd_pc = "recv"
    /\ rd_lock = "free"
    /\ nrecv < MaxFrames
    /\ rd_lock' = "run"
    /\ UNCHANGED <<default_queue, id_queues, named_id_queues, latest_msgs,
                   subscribe_ids, callbacks, id_last_seen, clock, nrecv,
                   rd_pc, rd_msg, rd_callbacks, rd_idx, invoked, lastOp,
                   cb_called>>
    /\ UNCHANGED <<schedVars, tpVars, dbcVars, diagVars, traceVars, padVars>>

\* run(): the lock after line 170, where the with block ends
lock_after_store_Held == "run"

lock_after_store == "free"

\* run(), lines 164-170: the locked section, and the end of the with block
run_store ==
    /\ rd_lock = "run"
    /\ RecvFromEnv
    /\ rd_lock' = lock_after_store
    /\ UNCHANGED cb_called

\* the lock is free at the latest when run() is back at bus.recv
LockAtStep == IF rd_pc' = "recv" THEN "free" ELSE rd_lock

\* run(), line 172
run_put ==
    /\ Put
    /\ rd_lock' = LockAtStep
    /\ UNCHANGED cb_called

\* cb(msg) calls subscribe, unsubscribe or get_from_id on the reader: the
\* call takes the lock, runs and returns
callback_call ==
    /\ rd_pc = "cb"
    /\ ~cb_called
    /\ rd_lock = "free"
    /\ LET cb == rd_callbacks[rd_idx]
       IN  /\ cb \in ApiCbs
           /\ CASE cb = "cbSubscribe" ->
                     \E nm \in Names : subscribe(rd_msg.id, None, nm)
                [] cb = "cbUnsubscribe" -> unsubscribe(rd_msg.id, None)
                [] cb = "cbGet" ->
                     IF get_from_id_result(rd_msg.id, None) # NoMsg
                     THEN get_from_id(rd_msg.id, None)
                     ELSE /\ UNCHANGED <<default_queue, id_queues,
                                         named_id_queues, latest_msgs,
                                         subscribe_ids, callbacks,
                                         id_last_seen, clock, nrecv, rd_pc,
                                         rd_msg, rd_callbacks, rd_idx,
                                         invoked, lastOp>>
                          /\ UNCHANGED <<schedVars, tpVars, dbcVars, diagVars, traceVars, padVars>>
    /\ cb_called' = TRUE
    /\ UNCHANGED rd_lock

\* run(), lines 173-177: cb(msg) returns
run_callback_return ==
    /\ InvokeCallback
    /\ rd_callbacks[rd_idx] \in ApiCbs => cb_called
    /\ cb_called' = FALSE
    /\ rd_lock' = LockAtStep

\* subscribe, unsubscribe and get_from_id called by another thread
thread_subscribe ==
    /\ rd_lock = "free"
    /\ \E i \in Ids, cb \in ApiCbs \cup {None}, nm \in Names \cup {None} :
          subscribe(i, cb, nm)
    /\ UNCHANGED <<rd_lock, cb_called>>

thread_unsubscribe ==
    /\ rd_lock = "free"
    /\ \E i \in Ids, nm \in Names \cup {None} : unsubscribe(i, nm)
    /\ UNCHANGED <<rd_lock, cb_called>>

thread_get_from_id ==
    /\ rd_lock = "free"
    /\ \E i \in Ids, nm \in Names \cup {None} : get_from_id(i, nm)
    /\ UNCHANGED <<rd_lock, cb_called>>

\* a step of the reader thread after bus.recv
ReaderStep == run_store \/ run_put \/ callback_call \/ run_callback_return

LockNext ==
    \/ run_acquire
    \/ ReaderStep
    \/ thread_subscribe
    \/ thread_unsubscribe
    \/ thread_get_from_id

(***************************************************************************)
(* MessageTask / SmartCanMessageScheduler, one message id                  *)
(***************************************************************************)
MsgId == 1
NoDuration == -1

\* add_message() has created no further task: entry tells whether the table
\* entry of MsgId is such a task, threads counts their threads that are
\* alive, calls counts the add_message() calls
NoneAdded == [entry |-> FALSE, threads |-> 0, calls |-> 0]

\* the task state MessageTask.__init__ builds, and the observation variables
TaskInit(p, d) ==
    /\ period = p
    /\ duration = d
    /\ running = TRUE
    /\ stop_event = FALSE
    /\ pause_event = TRUE
    /\ wake_event = FALSE
    /\ in_burst_mode = FALSE
    /\ burst_count = 0
    /\ next_periodic_time = 0
    /\ perf_counter = 0
    /\ t_pc = "L75"
    /\ t_now = 0
    /\ t_i = 0
    /\ t_n = 0
    /\ t_deadline = 0
    /\ exit_reason = "none"
    /\ st_pc = "idle"
    /\ st_after_exit = FALSE
    /\ bn_pc = "idle"
    /\ bn_i = 0
    /\ bn_n = 0
    /\ pz_pc = "idle"
    /\ sa_pc = "idle"
    /\ noop_stops = 0
    /\ added = NoneAdded
    /\ sent = [oneshot |-> 0, burst |-> 0, periodic |-> 0, now |-> 0]
    /\ early = FALSE
    /\ accepted = 0
    /\ n_triggers = 0
    /\ used_pause = FALSE
    /\ used_burst = FALSE
    /\ paused_sends = 0

\* no task: the scheduler part of a state of the other specifications
SchedIdle ==
    /\ tasks = {}
    /\ TaskInit(0, NoDuration)

\* after add_message(MsgId, period, ..., duration): the task is in the table
\* and its thread has been started
SchedInit ==
    /\ tasks = {MsgId}
    /\ \E p \in {0, Period}, d \in {NoDuration, DurationArg} : TaskInit(p, d)

\* _send(payload): one more frame of this kind handed to bus.send
Sent(kind) == [sent EXCEPT ![kind] = @ + 1]

\* a send of _send_loop; early records a periodic frame sent before its time
LoopSend(kind) ==
    /\ sent' = Sent(kind)
    /\ paused_sends' = IF pause_event THEN paused_sends ELSE paused_sends + 1
    /\ early' = (early \/ (kind = "periodic" /\ perf_counter < next_periodic_time))

\* line 75-76: while self.running: now = time.perf_counter()
L75 ==
    /\ t_pc = "L75"
    /\ IF running
       THEN /\ t_now' = perf_counter
            /\ t_pc' = "L77"
            /\ UNCHANGED exit_reason
       ELSE /\ t_pc' = "exit"
            /\ exit_reason' = "not_running"
            /\ UNCHANGED t_now
    /\ UNCHANGED <<tasks, period, duration, running, stop_event, pause_event,
                   wake_event, in_burst_mode, burst_count, next_periodic_time,
                   perf_counter, t_i, t_n, t_deadline, st_pc, st_after_exit,
                   bn_pc, bn_i, bn_n, sent, accepted, n_triggers, used_pause,
                   used_burst, paused_sends>>
    /\ UNCHANGED <<early, pz_pc, stopVars, readerVars, tpVars, dbcVars, diagVars, traceVars, padVars>>

\* line 77: self.pause_event.wait()
L77 ==
    /\ t_pc = "L77"
    /\ pause_event
    /\ t_pc' = "L78"
    /\ UNCHANGED <<tasks, period, duration, running, stop_event, pause_event,
                   wake_event, in_burst_mode, burst_count, next_periodic_time,
                   perf_counter, t_now, t_i, t_n, t_deadline, exit_reason,
                   st_pc, st_after_exit, bn_pc, bn_i, bn_n, sent, accepted,
                   n_triggers, used_pause, used_burst, paused_sends>>
    /\ UNCHANGED <<early, pz_pc, stopVars, readerVars, tpVars, dbcVars, diagVars, traceVars, padVars>>

\* lines 78-89: the checks at the head of an iteration
L78 ==
    /\ t_pc = "L78"
    /\ IF stop_event
       THEN /\ t_pc' = "exit"
            /\ exit_reason' = "stop"
            /\ UNCHANGED <<running, t_i, t_n>>
       ELSE IF duration # NoDuration /\ t_now > duration
       THEN /\ running' = FALSE
            /\ t_pc' = "exit"
            /\ exit_reason' = "deadline"
            /\ UNCHANGED <<t_i, t_n>>
       ELSE IF period = 0
       THEN /\ t_pc' = "L84"
            /\ UNCHANGED <<running, exit_reason, t_i, t_n>>
       ELSE IF in_burst_mode
       THEN /\ t_n' = burst_count
            /\ t_i' = 0
            /\ t_pc' = "L90"
            /\ UNCHANGED <<running, exit_reason>>
       ELSE /\ t_pc' = "L98"
            /\ UNCHANGED <<running, exit_reason, t_i, t_n>>
    /\ UNCHANGED <<tasks, period, duration, stop_event, pause_event,
                   wake_event, in_burst_mode, burst_count, next_periodic_time,
                   perf_counter, t_now, t_deadline, st_pc, st_after_exit,
                   bn_pc, bn_i, bn_n, sent, accepted, n_triggers, used_pause,
                   used_burst, paused_sends>>
    /\ UNCHANGED <<early, pz_pc, stopVars, readerVars, tpVars, dbcVars, diagVars, traceVars, padVars>>

\* lines 84-85: the one-shot send
L84 ==
    /\ t_pc = "L84"
    /\ LoopSend("oneshot")
    /\ t_pc' = "L86"
    /\ UNCHANGED <<tasks, period, duration, running, stop_event, pause_event,
                   wake_event, in_burst_mode, burst_count, next_periodic_time,
                   perf_counter, t_now, t_i, t_n, t_deadline, exit_reason,
                   st_pc, st_after_exit, bn_pc, bn_i, bn_n, accepted,
                   n_triggers, used_pause, used_burst>>
    /\ UNCHANGED <<pz_pc, stopVars, readerVars, tpVars, dbcVars, diagVars, traceVars, padVars>>

\* line 86: the running flag after the one-shot send
RunningAfterOneShot_Stay == TRUE

RunningAfterOneShot == FALSE

\* lines 86-87: self.running = False; break
L86 ==
    /\ t_pc = "L86"
    /\ running' = RunningAfterOneShot
    /\ t_pc' = "exit"
    /\ exit_reason' = "oneshot"
    /\ UNCHANGED <<tasks, period, duration, stop_event, pause_event,
                   wake_event, in_burst_mode, burst_count, next_periodic_time,
                   perf_counter, t_now, t_i, t_n, t_deadline, st_pc,
                   st_after_exit, bn_pc, bn_i, bn_n, sent, accepted,
                   n_triggers, used_pause, used_burst, paused_sends>>
    /\ UNCHANGED <<early, pz_pc, stopVars, readerVars, tpVars, dbcVars, diagVars, traceVars, padVars>>

\* lines 89-91: one iteration of the burst loop sends a frame
L90 ==
    /\ t_pc = "L90"
    /\ IF t_i < t_n
       THEN /\ LoopSend("burst")
            /\ t_pc' = "L92"
       ELSE /\ t_pc' = "L94"
            /\ UNCHANGED <<sent, paused_sends, early>>
    /\ UNCHANGED <<tasks, period, duration, running, stop_event, pause_event,
                   wake_event, in_burst_mode, burst_count, next_periodic_time,
                   perf_counter, t_now, t_i, t_n, t_deadline, exit_reason,
                   st_pc, st_after_exit, bn_pc, bn_i, bn_n, accepted,
                   n_triggers, used_pause, used_burst>>
    /\ UNCHANGED <<pz_pc, stopVars, readerVars, tpVars, dbcVars, diagVars, traceVars, padVars>>

\* lines 92-93: stop_event.wait(timeout=burst_spacing) returns
L92 ==
    /\ t_pc = "L92"
    /\ IF stop_event
       THEN /\ t_pc' = "L94"
            /\ UNCHANGED t_i
       ELSE /\ t_i' = t_i + 1
            /\ t_pc' = "L90"
    /\ UNCHANGED <<tasks, period, duration, running, stop_event, pause_event,
                   wake_event, in_burst_mode, burst_count, next_periodic_time,
                   perf_counter, t_now, t_n, t_deadline, exit_reason, st_pc,
                   st_after_exit, bn_pc, bn_i, bn_n, sent, accepted,
                   n_triggers, used_pause, used_burst, paused_sends>>
    /\ UNCHANGED <<early, pz_pc, stopVars, readerVars, tpVars, dbcVars, diagVars, traceVars, padVars>>

\* next_periodic_time after "self.next_periodic_time += self.period"
AdvanceNextFire_CatchUp(next_fire, per, now) ==
    IF now > next_fire THEN now + per ELSE next_fire + per

AdvanceNextFire(next_fire, per, now) == next_fire + per

\* lines 94-97: the end of a burst
L94 ==
    /\ t_pc = "L94"
    /\ in_burst_mode' = FALSE
    /\ t_now' = perf_counter
    /\ next_periodic_time' =
         AdvanceNextFire(next_periodic_time, period, perf_counter)
    /\ t_pc' = "L75"
    /\ UNCHANGED <<tasks, period, duration, running, stop_event, pause_event,
                   wake_event, burst_count, perf_counter, t_i, t_n,
                   t_deadline, exit_reason, st_pc, st_after_exit, bn_pc, bn_i,
                   bn_n, sent, accepted, n_triggers, used_pause, used_burst,
                   paused_sends>>
    /\ UNCHANGED <<early, pz_pc, stopVars, readerVars, tpVars, dbcVars, diagVars, traceVars, padVars>>

\* lines 98-100: now = time.perf_counter(); if now < self.next_periodic_time
L98 ==
    /\ t_pc = "L98"
    /\ t_now' = perf_counter
    /\ IF perf_counter < next_periodic_time
       THEN /\ t_deadline' = perf_counter + (next_periodic_time - perf_counter)
            /\ t_pc' = "L101"
       ELSE /\ t_pc' = "L107"
            /\ UNCHANGED t_deadline
    /\ UNCHANGED <<tasks, period, duration, running, stop_event, pause_event,
                   wake_event, in_burst_mode, burst_count, next_periodic_time,
                   perf_counter, t_i, t_n, exit_reason, st_pc, st_after_exit,
                   bn_pc, bn_i, bn_n, sent, accepted, n_triggers, used_pause,
                   used_burst, paused_sends>>
    /\ UNCHANGED <<early, pz_pc, stopVars, readerVars, tpVars, dbcVars, diagVars, traceVars, padVars>>

\* lines 101-106: wake_event.wait(timeout=remaining) returns
L101 ==
    /\ t_pc = "L101"
    /\ wake_event \/ perf_counter >= t_deadline
    /\ IF stop_event
       THEN /\ t_pc' = "exit"
            /\ exit_reason' = "stop"
            /\ UNCHANGED wake_event
       ELSE IF wake_event
       THEN /\ wake_event' = FALSE
            /\ t_pc' = "L75"
            /\ UNCHANGED exit_reason
       ELSE /\ t_pc' = "L107"
            /\ UNCHANGED <<wake_event, exit_reason>>
    /\ UNCHANGED <<tasks, period, duration, running, stop_event, pause_event,
                   in_burst_mode, burst_count, next_periodic_time,
                   perf_counter, t_now, t_i, t_n, t_deadline, st_pc,
                   st_after_exit, bn_pc, bn_i, bn_n, sent, accepted,
                   n_triggers, used_pause, used_burst, paused_sends>>
    /\ UNCHANGED <<early, pz_pc, stopVars, readerVars, tpVars, dbcVars, diagVars, traceVars, padVars>>

\* line 107: self.pause_event.wait()
L107 ==
    /\ t_pc = "L107"
    /\ pause_event
    /\ t_pc' = "L109"
    /\ UNCHANGED <<tasks, period, duration, running, stop_event, pause_event,
                   wake_event, in_burst_mode, burst_count, next_periodic_time,
                   perf_counter, t_now, t_i, t_n, t_deadline, exit_reason,
                   st_pc, st_after_exit, bn_pc, bn_i, bn_n, sent, accepted,
                   n_triggers, used_pause, used_burst, paused_sends>>
    /\ UNCHANGED <<early, pz_pc, stopVars, readerVars, tpVars, dbcVars, diagVars, traceVars, padVars>>

\* lines 108-111: the periodic send
L109 ==
    /\ t_pc = "L109"
    /\ LoopSend("periodic")
    /\ next_periodic_time' =
         AdvanceNextFire(next_periodic_time, period, perf_counter)
    /\ t_pc' = "L75"
    /\ UNCHANGED <<tasks, period, duration, running, stop_event, pause_event,
                   wake_event, in_burst_mode, burst_count, perf_counter,
                   t_now, t_i, t_n, t_deadline, exit_reason, st_pc,
                   st_after_exit, bn_pc, bn_i, bn_n, accepted, n_triggers,
                   used_pause, used_burst>>
    /\ UNCHANGED <<pz_pc, stopVars, readerVars, tpVars, dbcVars, diagVars, traceVars, padVars>>

\* time.perf_counter() advances
TickPerf ==
    /\ perf_counter < MaxPerf
    /\ perf_counter' = perf_counter + 1
    /\ UNCHANGED <<tasks, period, duration, running, stop_event, pause_event,
                   wake_event, in_burst_mode, burst_count, next_periodic_time,
                   t_pc, t_now, t_i, t_n, t_deadline, exit_reason, st_pc,
                   st_after_exit, bn_pc, bn_i, bn_n, sent, accepted,
                   n_triggers, used_pause, used_burst, paused_sends>>
    /\ UNCHANGED <<early, pz_pc, stopVars, readerVars, tpVars, dbcVars, diagVars, traceVars, padVars>>

\* MessageTask.pause()
pause ==
    /\ pause_event' = FALSE
    /\ used_pause' = TRUE
    /\ paused_sends' = 0
    /\ UNCHANGED <<tasks, period, duration, running, stop_event, wake_event,
                   in_burst_mode, burst_count, next_periodic_time,
                   perf_counter, t_pc, t_now, t_i, t_n, t_deadline,
                   exit_reason, st_pc, st_after_exit, bn_pc, bn_i, bn_n, sent,
                   accepted, n_triggers, used_burst>>
    /\ UNCHANGED <<early, pz_pc, stopVars, readerVars, tpVars, dbcVars, diagVars, traceVars, padVars>>

\* MessageTask.resume()
resume ==
    /\ ~pause_event
    /\ pause_event' = TRUE
    /\ paused_sends' = 0
    /\ UNCHANGED <<tasks, period, duration, running, stop_event, wake_event,
                   in_burst_mode, burst_count, next_periodic_time,
                   perf_counter, t_pc, t_now, t_i, t_n, t_deadline,
                   exit_reason, st_pc, st_after_exit, bn_pc, bn_i, bn_n, sent,
                   accepted, n_triggers, used_pause, used_burst>>
    /\ UNCHANGED <<early, pz_pc, stopVars, readerVars, tpVars, dbcVars, diagVars, traceVars, padVars>>

\* trigger_burst's immediate_burst, lines 59-61: the test made when the task
\* is not running
immediate_burst_Never == FALSE

immediate_burst == period = 0

\* MessageTask.trigger_burst(count, spacing), lines 56-69 under self.lock
trigger_burst(count) ==
    /\ n_triggers < MaxTriggers
    /\ bn_pc = "idle"
    /\ n_triggers' = n_triggers + 1
    /\ used_burst' = TRUE
    /\ IF stop_event \/ ~pause_event
       THEN UNCHANGED <<burst_count, in_burst_mode, wake_event, accepted,
                        bn_pc, bn_i, bn_n>>
       ELSE IF ~running
       THEN /\ IF immediate_burst /\ count > 0
               THEN /\ bn_pc' = "send"
                    /\ bn_i' = 0
                    /\ bn_n' = count
               ELSE UNCHANGED <<bn_pc, bn_i, bn_n>>
            /\ UNCHANGED <<burst_count, in_burst_mode, wake_event, accepted>>
       ELSE /\ burst_count' = count
            /\ in_burst_mode' = TRUE
            /\ wake_event' = TRUE
            /\ accepted' = accepted + count
            /\ UNCHANGED <<bn_pc, bn_i, bn_n>>
    /\ UNCHANGED <<tasks, period, duration, running, stop_event, pause_event,
                   next_periodic_time, perf_counter, t_pc, t_now, t_i, t_n,
                   t_deadline, exit_reason, st_pc, st_after_exit, sent,
                   used_pause, paused_sends>>
    /\ UNCHANGED <<early, pz_pc, stopVars, readerVars, tpVars, dbcVars, diagVars, traceVars, padVars>>

\* _burst_now, lines 115-117: the caller sends a frame
burst_now_send ==
    /\ bn_pc = "send"
    /\ sent' = Sent("now")
    /\ bn_pc' = IF bn_i < bn_n - 1 THEN "wait" ELSE "idle"
    /\ UNCHANGED <<tasks, period, duration, running, stop_event, pause_event,
                   wake_event, in_burst_mode, burst_count, next_periodic_time,
                   perf_counter, t_pc, t_now, t_i, t_n, t_deadline,
                   exit_reason, st_pc, st_after_exit, bn_i, bn_n, accepted,
                   n_triggers, used_pause, used_burst, paused_sends>>
    /\ UNCHANGED <<early, pz_pc, stopVars, readerVars, tpVars, dbcVars, diagVars, traceVars, padVars>>

\* _burst_now, lines 118-120: stop_event.wait(timeout=spacing) returns
burst_now_wait ==
    /\ bn_pc = "wait"
    /\ IF stop_event
       THEN /\ bn_pc' = "idle"
            /\ UNCHANGED bn_i
       ELSE /\ bn_pc' = "send"
            /\ bn_i' = bn_i + 1
    /\ UNCHANGED <<tasks, period, duration, running, stop_event, pause_event,
                   wake_event, in_burst_mode, burst_count, next_periodic_time,
                   perf_counter, t_pc, t_now, t_i, t_n, t_deadline,
                   exit_reason, st_pc, st_after_exit, bn_n, sent, accepted,
                   n_triggers, used_pause, used_burst, paused_sends>>
    /\ UNCHANGED <<early, pz_pc, stopVars, readerVars, tpVars, dbcVars, diagVars, traceVars, padVars>>

\* SmartCanMessageScheduler.stop_message(msg_id), lines 148-150: the pop
stop_message ==
    /\ st_pc = "idle"
    /\ MsgId \in tasks
    /\ tasks' = tasks \ {MsgId}
    /\ st_pc' = "stop"
    /\ st_after_exit' = (t_pc = "exit")
    /\ UNCHANGED <<period, duration, running, stop_event, pause_event,
                   wake_event, in_burst_mode, burst_count, next_periodic_time,
                   perf_counter, t_pc, t_now, t_i, t_n, t_deadline,
                   exit_reason, bn_pc, bn_i, bn_n, sent, accepted, n_triggers,
                   used_pause, used_burst, paused_sends>>
    /\ UNCHANGED <<early, pz_pc, stopVars, readerVars, tpVars, dbcVars, diagVars, traceVars, padVars>>

\* MessageTask.stop(), lines 39-42
stop_set ==
    /\ st_pc = "stop"
    /\ running' = FALSE
    /\ stop_event' = TRUE
    /\ pause_event' = TRUE
    /\ wake_event' = TRUE
    /\ st_pc' = "join"
    /\ UNCHANGED <<tasks, period, duration, in_burst_mode, burst_count,
                   next_periodic_time, perf_counter, t_pc, t_now, t_i, t_n,
                   t_deadline, exit_reason, st_after_exit, bn_pc, bn_i, bn_n,
                   sent, accepted, n_triggers, used_pause, used_burst,
                   paused_sends>>
    /\ UNCHANGED <<early, pz_pc, stopVars, readerVars, tpVars, dbcVars, diagVars, traceVars, padVars>>

\* MessageTask.stop(), line 43: self.thread.join() returns
stop_join ==
    /\ st_pc = "join"
    /\ t_pc = "exit"
    /\ st_pc' = "returned"
    /\ UNCHANGED <<tasks, period, duration, running, stop_event, pause_event,
                   wake_event, in_burst_mode, burst_count, next_periodic_time,
                   perf_counter, t_pc, t_now, t_i, t_n, t_deadline,
                   exit_reason, st_after_exit, bn_pc, bn_i, bn_n, sent,
                   accepted, n_triggers, used_pause, used_burst, paused_sends>>
    /\ UNCHANGED <<early, pz_pc, stopVars, readerVars, tpVars, dbcVars, diagVars, traceVars, padVars>>

SchedNext ==
    \/ L75 \/ L77 \/ L78 \/ L84 \/ L86 \/ L90 \/ L92 \/ L94
    \/ L98 \/ L101 \/ L107 \/ L109
    \/ TickPerf
    \/ pause
    \/ resume
    \/ \E count \in BurstCounts : trigger_burst(count)
    \/ burst_now_send
    \/ burst_now_wait
    \/ stop_message
    \/ stop_set
    \/ stop_join

\* one step of the task thread in _send_loop
ThreadStep ==
    \/ L75 \/ L77 \/ L78 \/ L84 \/ L86 \/ L90 \/ L92 \/ L94
    \/ L98 \/ L101 \/ L107 \/ L109

\* SmartCanMessageScheduler.lock is free: no pause() call holds it and no
\* trigger_burst() call is inside _burst_now
LockFree == pz_pc = "idle" /\ bn_pc = "idle"

\* SmartCanMessageScheduler.pause(msg_id), lines 168-170: the lookup under
\* the lock finds the task (the other branch only logs a warning)
sched_pause_lookup ==
    /\ LockFree
    /\ MsgId \in tasks
    /\ pz_pc' = "found"
    /\ UNCHANGED <<tasks, period, duration, running, stop_event, pause_event,
                   wake_event, in_burst_mode, burst_count, next_periodic_time,
                   perf_counter, t_pc, t_now, t_i, t_n, t_deadline,
                   exit_reason, st_pc, st_after_exit, bn_pc, bn_i, bn_n, sent,
                   accepted, n_triggers, used_pause, used_burst, paused_sends>>
    /\ UNCHANGED <<early, stopVars, readerVars, tpVars, dbcVars, diagVars, traceVars, padVars>>

\* SmartCanMessageScheduler.pause(msg_id), line 171: task.pause(), and the
\* lock is released
sched_pause_task ==
    /\ pz_pc = "found"
    /\ pz_pc' = "idle"
    /\ pause_event' = FALSE
    /\ used_pause' = TRUE
    /\ paused_sends' = 0
    /\ UNCHANGED <<tasks, period, duration, running, stop_event, wake_event,
                   in_burst_mode, burst_count, next_periodic_time,
                   perf_counter, t_pc, t_now, t_i, t_n, t_deadline,
                   exit_reason, st_pc, st_after_exit, bn_pc, bn_i, bn_n, sent,
                   accepted, n_triggers, used_burst>>
    /\ UNCHANGED <<early, stopVars, readerVars, tpVars, dbcVars, diagVars, traceVars, padVars>>

\* SmartCanMessageScheduler.resume(msg_id), lines 175-178
sched_resume ==
    /\ LockFree
    /\ MsgId \in tasks
    /\ resume

\* SmartCanMessageScheduler.trigger_burst(msg_id, count), lines 154-157
sched_trigger_burst(count) ==
    /\ LockFree
    /\ MsgId \in tasks
    /\ trigger_burst(count)

\* SmartCanMessageScheduler.stop_message(msg_id), lines 148-150
sched_stop_message ==
    /\ LockFree
    /\ stop_message

\* SmartCanMessageScheduler.stop_all(), lines 184-185: the snapshot of the
\* table under the lock holds the task
stop_all_snapshot ==
    /\ LockFree
    /\ st_pc = "idle"
    /\ MsgId \in tasks
    /\ st_pc' = "clear"
    /\ st_after_exit' = (t_pc = "exit")
    /\ UNCHANGED <<tasks, period, duration, running, stop_event, pause_event,
                   wake_event, in_burst_mode, burst_count, next_periodic_time,
                   perf_counter, t_pc, t_now, t_i, t_n, t_deadline,
                   exit_reason, bn_pc, bn_i, bn_n, sent, accepted, n_triggers,
                   used_pause, used_burst, paused_sends>>
    /\ UNCHANGED <<early, pz_pc, stopVars, readerVars, tpVars, dbcVars, diagVars, traceVars, padVars>>

\* stop_all(), line 186: self.tasks.clear(), outside the lock; task.stop()
\* of line 188 follows
stop_all_clear ==
    /\ st_pc = "clear"
    /\ tasks' = {}
    /\ added' = [added EXCEPT !.entry = FALSE]
    /\ st_pc' = "stop"
    /\ UNCHANGED <<period, duration, running, stop_event, pause_event,
                   wake_event, in_burst_mode, burst_count, next_periodic_time,
                   perf_counter, t_pc, t_now, t_i, t_n, t_deadline,
                   exit_reason, st_after_exit, bn_pc, bn_i, bn_n, sent,
                   accepted, n_triggers, used_pause, used_burst, paused_sends>>
    /\ UNCHANGED <<early, pz_pc, sa_pc, noop_stops, readerVars, tpVars, dbcVars, diagVars, traceVars, padVars>>

\* a call of stop_message() or stop_all() goes on
StopStep == stop_all_clear \/ stop_set \/ stop_join

\* the task is driven through the scheduler's methods only
SchedApiNext ==
    \/ ThreadStep
    \/ TickPerf
    \/ sched_pause_lookup
    \/ sched_pause_task
    \/ sched_resume
    \/ \E count \in BurstCounts : sched_trigger_burst(count)
    \/ burst_now_send
    \/ burst_now_wait
    \/ sched_stop_message
    \/ stop_all_snapshot
    \/ StopStep

\* an id no task has been added for
OtherId == 2

\* self.tasks.pop(msg_id, None): the table afterwards
PopTask_Clear(table, msg_id) == {}

PopTask(table, msg_id) == table \ {msg_id}

\* stop_message(msg_id), lines 148-151, for an id that is not in the table:
\* pop returns None and task.stop() is skipped
stop_message_absent(msg_id) ==
    /\ LockFree
    /\ msg_id \notin tasks
    /\ noop_stops < MaxStopCalls
    /\ tasks' = PopTask(tasks, msg_id)
    /\ noop_stops' = noop_stops + 1
    /\ UNCHANGED <<period, duration, running, stop_event, pause_event,
                   wake_event, in_burst_mode, burst_count, next_periodic_time,
                   perf_counter, t_pc, t_now, t_i, t_n, t_deadline,
                   exit_reason, st_pc, st_after_exit, bn_pc, bn_i, bn_n, sent,
                   accepted, n_triggers, used_pause, used_burst, paused_sends>>
    /\ UNCHANGED <<early, pz_pc, sa_pc, added, readerVars, tpVars, dbcVars, diagVars, traceVars, padVars>>

\* stop_all(), lines 184-185, on an empty table: the snapshot is empty
stop_all_snapshot_empty ==
    /\ LockFree
    /\ sa_pc = "idle"
    /\ tasks = {}
    /\ noop_stops < MaxStopCalls
    /\ sa_pc' = "clear"
    /\ UNCHANGED <<tasks, period, duration, running, stop_event, pause_event,
                   wake_event, in_burst_mode, burst_count, next_periodic_time,
                   perf_counter, t_pc, t_now, t_i, t_n, t_deadline,
                   exit_reason, st_pc, st_after_exit, bn_pc, bn_i, bn_n, sent,
                   accepted, n_triggers, used_pause, used_burst, paused_sends>>
    /\ UNCHANGED <<early, pz_pc, noop_stops, added, readerVars, tpVars, dbcVars, diagVars, traceVars, padVars>>

\* stop_all(), lines 186-188, after an empty snapshot: self.tasks.clear()
\* and a loop over no task
stop_all_return_empty ==
    /\ sa_pc = "clear"
    /\ tasks' = {}
    /\ added' = [added EXCEPT !.entry = FALSE]
    /\ sa_pc' = "idle"
    /\ noop_stops' = noop_stops + 1
    /\ UNCHANGED <<period, duration, running, stop_event, pause_event,
                   wake_event, in_burst_mode, burst_count, next_periodic_time,
                   perf_counter, t_pc, t_now, t_i, t_n, t_deadline,
                   exit_reason, st_pc, st_after_exit, bn_pc, bn_i, bn_n, sent,
                   accepted, n_triggers, used_pause, used_burst, paused_sends>>
    /\ UNCHANGED <<early, pz_pc, readerVars, tpVars, dbcVars, diagVars, traceVars, padVars>>

\* a task that is stopped through the scheduler, with one burst request at
\* most, and further stop calls
SchedStopNext ==
    \/ ThreadStep
    \/ TickPerf
    \/ \E count \in BurstCounts : n_triggers = 0 /\ sched_trigger_burst(count)
    \/ burst_now_send
    \/ burst_now_wait
    \/ sched_stop_message
    \/ stop_all_snapshot
    \/ StopStep
    \/ \E msg_id \in {MsgId, OtherId} : stop_message_absent(msg_id)
    \/ stop_all_snapshot_empty
    \/ stop_all_return_empty

(***************************************************************************)
(* COMMON/Cast.py.  A string is a sequence of characters; a hex digit is   *)
(* the character 0..15 (upper() makes the case irrelevant), SP is ' '.     *)
(***************************************************************************)
SP == 16

Min(a, b) == IF a < b THEN a ELSE b

\* [0] * n
Zeros(n) == [i \in 1..(IF n > 0 THEN n ELSE 0) |-> 0]

\* hex(val)[2:], left-padded with '0' to two characters (val in 0..255)
HexPair(val) == <<val \div 16, val % 16>>

\* int(x, 16) of a two character string
IntOf(x) == x[1] * 16 + x[2]

HexArr2Str(msg) ==
    [i \in 1..(3 * Len(msg)) |->
        LET val == msg[(i + 2) \div 3]
        IN  IF i % 3 = 1 THEN val \div 16
            ELSE IF i % 3 = 2 THEN val % 16
            ELSE SP]

HexArr2StrArr(msg) == [i \in 1..Len(msg) |-> HexPair(msg[i])]

Str2HexArr(input_str) ==
    LET nosp   == SelectSeq(input_str, LAMBDA c : c # SP)
        padded == IF Len(nosp) % 2 # 0 THEN Append(nosp, 0) ELSE nosp
    IN  [i \in 1..(Len(padded) \div 2) |->
            padded[2 * i - 1] * 16 + padded[2 * i]]

(***************************************************************************)
(* CANTP/Frame.py                                                          *)
(***************************************************************************)
chunk_length == 8
FCFS_CTS == 0
FCFS_WAIT == 1
FCFS_OVFLW == 2

\* arr[:num], arr[num:]
slice1stChunk(arr, num) ==
    <<SubSeq(arr, 1, Min(num, Len(arr))), SubSeq(arr, num + 1, Len(arr))>>

\* <<value, used_len>>
calculateLength(msg) ==
    IF IntOf(msg[2]) # 0
    THEN <<(IntOf(msg[1]) % 16) * 256 + IntOf(msg[2]), 2>>
    ELSE <<IntOf(msg[3]) * 16777216 + IntOf(msg[4]) * 65536
             + IntOf(msg[5]) * 256 + IntOf(msg[6]), 5>>

\* math.ceil(a / b) for b > 0
CeilDiv(a, b) == -((-a) \div b)

\* <<expected frames, total_length, data>>
expectedFrames(msg, chunk) ==
    LET cl   == calculateLength(msg)
        data == SubSeq(msg, cl[2] + 1, Len(msg))
    IN  <<CeilDiv(cl[1] - Len(data), chunk - 1), cl[1], data>>

\* <<FCFS, FCBS, FCSTmin>>
extractCF(msg) == <<IntOf(msg[1]) % 4, IntOf(msg[2]), IntOf(msg[3])>>

increaseSN_NoWrap(SN) == SN + 1

increaseSN(SN) == IF SN < 15 THEN SN + 1 ELSE 0

\* convertFF without the zero padding of a single frame
convertFF_NoPad(data, chunk) ==
    IF Len(data) <= 7
    THEN <<HexArr2Str(<<Len(data)>> \o data), <<>>>>
    ELSE <<HexArr2Str(SubSeq(<<16, Len(data) % 256>> \o data, 1, chunk)),
           SubSeq(<<16, Len(data) % 256>> \o data, chunk + 1, Len(data) + 2)>>

\* <<frame string, remain_data>>
convertFF(data, chunk) ==
    LET data_len == Len(data)
    IN  IF data_len <= 7
        THEN <<HexArr2Str(<<data_len>> \o data \o Zeros(7 - data_len)), <<>>>>
        ELSE IF data_len <= 4095
        THEN LET extend_data ==
                   <<16 + ((data_len \div 256) % 16), data_len % 256>> \o data
                 sl == slice1stChunk(extend_data, chunk)
             IN  <<HexArr2Str(sl[1]), sl[2]>>
        ELSE LET extend_data ==
                   <<16, 0, (data_len \div 16777216) % 256,
                     (data_len \div 65536) % 256, (data_len \div 256) % 256,
                     data_len % 256>> \o data
                 sl == slice1stChunk(extend_data, chunk)
             IN  <<HexArr2Str(sl[1]), sl[2]>>

\* <<frame string, remain_data>>
nextCF(SN, data, chunk) ==
    LET padded == data \o Zeros(7 - Len(data))
        sl     == slice1stChunk(<<32 + SN>> \o padded, chunk)
    IN  <<HexArr2Str(sl[1]), sl[2]>>

(***************************************************************************)
(* CANTP/session.py over CANInterface.write, MockBus and the reader's      *)
(* callback dispatch                                                       *)
(***************************************************************************)
Sessions == {"A", "B"}
Fills == {0, 1}
Lens == (0..MaxLen) \cup {256}
EnvFrames == { <<2, 10, 11, 0, 0, 0, 0, 0>>,
               <<16, 8, 1, 2, 3, 4, 5, 6>>,
               <<33, 7, 8, 0, 0, 0, 0, 0>>,
               <<48, 0, 0, 0, 0, 0, 0, 0>> }

\* the byte sequence fill, fill+1, ... of length n
Data(n, fill) == [i \in 1..n |-> (fill + i - 1) % 256]

\* FlowControlSettings with its defaults, and the settings a receiving
\* session may be configured with
default_rx_flow_control == [block_size |-> 0, st_min |-> 20, flow_status |-> 0]

FlowSettings ==
    { default_rx_flow_control,
      [block_size |-> 1, st_min |-> 0, flow_status |-> 0],
      [block_size |-> 0, st_min |-> 0, flow_status |-> 1],
      [block_size |-> 0, st_min |-> 0, flow_status |-> 2] }

\* flow control frames of the ECU: CTS with BS 0 and STmin 20 ms, CTS with
\* BS 1 and STmin 100 us, WAIT, OVFLW
FcFrames == { <<48, 0, 20, 0, 0, 0, 0, 0>>,
             <<48, 1, 241, 0, 0, 0, 0, 0>>,
             <<49, 0, 0, 0, 0, 0, 0, 0>>,
             <<50, 0, 0, 0, 0, 0, 0, 0>> }

\* _interpret_st_min, in microseconds
_interpret_st_min(value) ==
    IF value <= 127 THEN value * 1000
    ELSE IF 241 <= value /\ value <= 249 THEN (value - 240) * 100
    ELSE 0

\* start of _wait_for_flow_control after a WAIT frame, had the loop taken
\* the time again
StartAfterWait_Restart(start, now) == now

\* start of _wait_for_flow_control after a WAIT frame: "continue" keeps it
StartAfterWait(start, now) == start

\* FlowControlSettings.build_payload(pci = 0x3)

build_payload(settings) ==
    HexPair(48 + (settings.flow_status % 16)) \o <<SP>>
      \o HexPair(settings.block_size % 256) \o <<SP>>
      \o HexPair(settings.st_min % 256)
      \o <<SP, 0, 0, SP, 0, 0, SP, 0, 0, SP, 0, 0, SP, 0, 0>>

\* CANInterface.write on a classical bus: MockBus.send loops the frame back
write(message_id, raw_data) ==
    Append(bus_rx, [id |-> message_id, data |-> Str2HexArr(raw_data)])

\* the frames session s has written, after one more write of raw_data to
\* its ECU id
Logged(s, raw_data) ==
    [tx_log EXCEPT ![s] =
        Append(@, [id |-> ecu_id[s], data |-> Str2HexArr(raw_data)])]

_pci_type(frame) == IntOf(frame[1]) \div 16

_is_transport_payload(frame) ==
    frame # <<>> /\ _pci_type(frame) \in {0, 1, 2}

_is_consecutive_frame_Any(frame) == frame # <<>>

_is_consecutive_frame(frame) ==
    frame # <<>> /\ _pci_type(frame) = 2

_is_flow_control_frame(frame) ==
    frame # <<>> /\ _pci_type(frame) = 3

\* predicate(payload) for the predicate passed to _pop_matching
Accepts(predicate, frame) ==
    IF predicate = "_is_transport_payload" THEN _is_transport_payload(frame)
    ELSE IF predicate = "_is_consecutive_frame" THEN _is_consecutive_frame(frame)
    ELSE _is_flow_control_frame(frame)

\* the session object whose _rx_buffer session s uses
BufferOf_Shared(s) == "A"

BufferOf(s) == session_of[s]

\* "with self._tx_lock" can be entered by caller s: no other caller of the
\* same session object is inside send
_tx_lock_free(s) ==
    \A o \in Sessions \ {s} :
        session_of[o] = session_of[s] =>
            tx_pc[o] \notin {"wait_fc", "cf", "wait_fc_block"}

\* "with self._rx_lock", likewise for receive
_rx_lock_free_Always(s) == TRUE

_rx_lock_free(s) ==
    \A o \in Sessions \ {s} :
        session_of[o] = session_of[s] => rx_pc[o] \notin {"first", "cf"}

\* _pop_matching: index of the first payload the predicate accepts, 0 if none
FirstMatch(s, predicate) ==
    LET buf == rx_buffer[BufferOf(s)]
        hit == {i \in 1..Len(buf) : Accepts(predicate, buf[i])}
    IN  IF hit = {} THEN 0 ELSE CHOOSE i \in hit : \A j \in hit : i <= j

RemoveAt(seq, i) == SubSeq(seq, 1, i - 1) \o SubSeq(seq, i + 1, Len(seq))

\* self._rx_buffer.pop(index)
PopAt(s, i) ==
    [rx_buffer EXCEPT ![BufferOf(s)] = RemoveAt(@, i)]

\* the reader invokes the callbacks registered for the id, in order; _on_frame
\* appends the payload unless the session is closed
RECURSIVE DeliverAll(_, _, _)
DeliverAll(buf, cbs, payload) ==
    IF cbs = <<>> THEN buf
    ELSE LET s == Head(cbs)
             nb == IF closed[s] THEN buf
                   ELSE [buf EXCEPT ![BufferOf(s)] = Append(@, payload)]
         IN  DeliverAll(nb, Tail(cbs), payload)

Fed(cbs) == {cbs[i] : i \in 1..Len(cbs)}

\* a call of session o that can take a step without waiting
Ready(o) ==
    \/ tx_pc[o] \in {"idle", "cf"}
    \/ tx_pc[o] \in {"wait_fc", "wait_fc_block"}
         /\ FirstMatch(o, "_is_flow_control_frame") # 0
    \/ rx_pc[o] = "idle"
    \/ rx_pc[o] = "first" /\ FirstMatch(o, "_is_transport_payload") # 0
    \/ rx_pc[o] = "cf"
         /\ (Len(rx_data[o]) >= rx_total[o]
             \/ FirstMatch(o, "_is_consecutive_frame") # 0)

\* a wait of session s runs into its deadline only when nothing can reach
\* it any more: the bus is drained and no peer writing to its tester id can
\* step
TimedOut(s) ==
    /\ bus_rx = <<>>
    /\ \A o \in Sessions \ {s} : ecu_id[o] = tester_id[s] => ~Ready(o)

\* no session exists
TPIdle ==
    /\ tp_D = <<>>
    /\ ecu_id = [s \in Sessions |-> 0]
    /\ tester_id = [s \in Sessions |-> 0]
    /\ session_of = [s \in Sessions |-> s]
    /\ bus_rx = <<>>
    /\ tp_subs = [i \in 0..3 |-> <<>>]
    /\ opened = {}
    /\ closed = [s \in Sessions |-> FALSE]
    /\ rx_buffer = [s \in Sessions |-> <<>>]
    /\ rx_flow_control = [s \in Sessions |-> default_rx_flow_control]
    /\ tx_pc = [s \in Sessions |-> "off"]
    /\ tx_remain = [s \in Sessions |-> <<>>]
    /\ tx_sn = [s \in Sessions |-> 0]
    /\ tx_block_size = [s \in Sessions |-> 0]
    /\ tx_frames_in_block = [s \in Sessions |-> 0]
    /\ tx_result = [s \in Sessions |-> FALSE]
    /\ rx_pc = [s \in Sessions |-> "off"]
    /\ rx_total = [s \in Sessions |-> 0]
    /\ rx_data = [s \in Sessions |-> <<>>]
    /\ rx_result = [s \in Sessions |-> <<>>]
    /\ nfed = [s \in Sessions |-> 0]
    /\ npopped = [s \in Sessions |-> 0]
    /\ tx_log = [s \in Sessions |-> <<>>]
    /\ tp_now = 0
    /\ fc_start = [s \in Sessions |-> 0]
    /\ fc_began = [s \in Sessions |-> 0]
    /\ tx_st_min = [s \in Sessions |-> 0]
    /\ n_env = 0

\* session A (ECU id 1, tester id 2) is about to send D to session B (ECU
\* id 2, tester id 1), which is about to receive
TPInit ==
    /\ tp_D \in {Data(n, f) : n \in Lens, f \in Fills}
    /\ ecu_id = [s \in Sessions |-> IF s = "A" THEN 1 ELSE 2]
    /\ tester_id = [s \in Sessions |-> IF s = "A" THEN 2 ELSE 1]
    /\ session_of = [s \in Sessions |-> s]
    /\ bus_rx = <<>>
    /\ tp_subs = [i \in 0..3 |-> IF i = 2 THEN <<"A">>
                                 ELSE IF i = 1 THEN <<"B">> ELSE <<>>]
    /\ opened = Sessions
    /\ closed = [s \in Sessions |-> FALSE]
    /\ rx_buffer = [s \in Sessions |-> <<>>]
    /\ \E fc \in FlowSettings : rx_flow_control = [s \in Sessions |-> fc]
    /\ tx_pc = [s \in Sessions |-> IF s = "A" THEN "idle" ELSE "off"]
    /\ tx_remain = [s \in Sessions |-> <<>>]
    /\ tx_sn = [s \in Sessions |-> 0]
    /\ tx_block_size = [s \in Sessions |-> 0]
    /\ tx_frames_in_block = [s \in Sessions |-> 0]
    /\ tx_result = [s \in Sessions |-> FALSE]
    /\ rx_pc = [s \in Sessions |-> IF s = "B" THEN "idle" ELSE "off"]
    /\ rx_total = [s \in Sessions |-> 0]
    /\ rx_data = [s \in Sessions |-> <<>>]
    /\ rx_result = [s \in Sessions |-> <<>>]
    /\ nfed = [s \in Sessions |-> 0]
    /\ npopped = [s \in Sessions |-> 0]
    /\ tx_log = [s \in Sessions |-> <<>>]
    /\ tp_now = 0
    /\ fc_start = [s \in Sessions |-> 0]
    /\ fc_began = [s \in Sessions |-> 0]
    /\ tx_st_min = [s \in Sessions |-> 0]
    /\ n_env = 0

\* two sessions with the same tester id 3 are yet to be opened
SessInit ==
    /\ tp_D = Data(8, 1)
    /\ ecu_id = [s \in Sessions |-> IF s = "A" THEN 1 ELSE 2]
    /\ tester_id = [s \in Sessions |-> 3]
    /\ session_of = [s \in Sessions |-> s]
    /\ bus_rx = <<>>
    /\ tp_subs = [i \in 0..3 |-> <<>>]
    /\ opened = {}
    /\ closed = [s \in Sessions |-> FALSE]
    /\ rx_buffer = [s \in Sessions |-> <<>>]
    /\ rx_flow_control = [s \in Sessions |-> default_rx_flow_control]
    /\ tx_pc = [s \in Sessions |-> "off"]
    /\ tx_remain = [s \in Sessions |-> <<>>]
    /\ tx_sn = [s \in Sessions |-> 0]
    /\ tx_block_size = [s \in Sessions |-> 0]
    /\ tx_frames_in_block = [s \in Sessions |-> 0]
    /\ tx_result = [s \in Sessions |-> FALSE]
    /\ rx_pc = [s \in Sessions |-> "off"]
    /\ rx_total = [s \in Sessions |-> 0]
    /\ rx_data = [s \in Sessions |-> <<>>]
    /\ rx_result = [s \in Sessions |-> <<>>]
    /\ nfed = [s \in Sessions |-> 0]
    /\ npopped = [s \in Sessions |-> 0]
    /\ tx_log = [s \in Sessions |-> <<>>]
    /\ tp_now = 0
    /\ fc_start = [s \in Sessions |-> 0]
    /\ fc_began = [s \in Sessions |-> 0]
    /\ tx_st_min = [s \in Sessions |-> 0]
    /\ n_env = 0

tpConfig == <<tp_D, ecu_id, tester_id, session_of, rx_flow_control>>

\* the result of a finished send of session s
SendDone(s, result) ==
    /\ tx_pc' = [tx_pc EXCEPT ![s] = "done"]
    /\ tx_result' = [tx_result EXCEPT ![s] = result]

\* the result of a finished receive of session s
ReceiveDone(s, result) ==
    /\ rx_pc' = [rx_pc EXCEPT ![s] = "done"]
    /\ rx_result' = [rx_result EXCEPT ![s] = result]

\* CANTPSession.__init__ with _register_callback
_register_callback(s) ==
    /\ s \notin opened
    /\ opened' = opened \cup {s}
    /\ tp_subs' = [tp_subs EXCEPT ![tester_id[s]] = Append(@, s)]
    /\ tx_pc' = [tx_pc EXCEPT ![s] = "idle"]
    /\ rx_pc' = [rx_pc EXCEPT ![s] = "idle"]
    /\ UNCHANGED <<tpConfig, bus_rx, closed, rx_buffer, tx_remain, tx_sn,
                   tx_block_size, tx_frames_in_block, tx_result, rx_total,
                   rx_data, rx_result, nfed, npopped, n_env>>
    /\ UNCHANGED <<tx_log, fcVars, readerVars, schedVars, dbcVars, diagVars, traceVars, padVars>>

\* CANTPSession.close: the reader's unsubscribe pops callbacks[tester id]
close(s) ==
    /\ s \in opened
    /\ ~closed[s]
    /\ closed' = [closed EXCEPT ![s] = TRUE]
    /\ tp_subs' = [tp_subs EXCEPT ![tester_id[s]] = <<>>]
    /\ UNCHANGED <<tpConfig, bus_rx, opened, rx_buffer, tx_pc, tx_remain,
                   tx_sn, tx_block_size, tx_frames_in_block, tx_result, rx_pc,
                   rx_total, rx_data, rx_result, nfed, npopped, n_env>>
    /\ UNCHANGED <<tx_log, fcVars, readerVars, schedVars, dbcVars, diagVars, traceVars, padVars>>

\* close() on a session that is closed already: _closed stays True, and
\* unsubscribe_id_queue(tester id) runs once more
close_again(s) ==
    /\ s \in opened
    /\ closed[s]
    /\ tp_subs' = [tp_subs EXCEPT ![tester_id[s]] = <<>>]
    /\ UNCHANGED <<tpConfig, bus_rx, opened, closed, rx_buffer, tx_pc,
                   tx_remain, tx_sn, tx_block_size, tx_frames_in_block,
                   tx_result, rx_pc, rx_total, rx_data, rx_result, nfed,
                   npopped, n_env>>
    /\ UNCHANGED <<tx_log, fcVars, readerVars, schedVars, dbcVars, diagVars, traceVars, padVars>>

\* the ECU side puts a frame with the tester id on the bus
EnvFrame ==
    /\ n_env < MaxEnvFrames
    /\ n_env' = n_env + 1
    /\ \E f \in EnvFrames : bus_rx' = Append(bus_rx, [id |-> 3, data |-> f])
    /\ UNCHANGED <<tpConfig, tp_subs, opened, closed, rx_buffer, tx_pc,
                   tx_remain, tx_sn, tx_block_size, tx_frames_in_block,
                   tx_result, rx_pc, rx_total, rx_data, rx_result, nfed,
                   npopped>>
    /\ UNCHANGED <<tx_log, fcVars, readerVars, schedVars, dbcVars, diagVars, traceVars, padVars>>

\* the reader thread takes a frame from the bus and runs the callbacks of
\* its id
TPDeliver ==
    /\ bus_rx # <<>>
    /\ LET msg == Head(bus_rx)
           cbs == tp_subs[msg.id]
       IN  /\ rx_buffer' = DeliverAll(rx_buffer, cbs, HexArr2StrArr(msg.data))
           /\ nfed' = [s \in Sessions |->
                         IF s \in Fed(cbs) /\ ~closed[s]
                         THEN nfed[s] + 1 ELSE nfed[s]]
    /\ bus_rx' = Tail(bus_rx)
    /\ UNCHANGED <<tpConfig, tp_subs, opened, closed, tx_pc, tx_remain, tx_sn,
                   tx_block_size, tx_frames_in_block, tx_result, rx_pc,
                   rx_total, rx_data, rx_result, npopped, n_env>>
    /\ UNCHANGED <<tx_log, fcVars, readerVars, schedVars, dbcVars, diagVars, traceVars, padVars>>

\* send, lines 151-162: the first frame
send_start(s) ==
    /\ tx_pc[s] = "idle"
    /\ _tx_lock_free(s)
    /\ LET raw_data == Str2HexArr(HexArr2Str(tp_D))
           ff == convertFF(raw_data, chunk_length)
       IN  /\ bus_rx' = write(ecu_id[s], ff[1])
           /\ tx_log' = Logged(s, ff[1])
           /\ tx_remain' = [tx_remain EXCEPT ![s] = ff[2]]
           /\ IF ff[2] = <<>>
              THEN /\ SendDone(s, TRUE)
                   /\ UNCHANGED <<fc_start, fc_began>>
              ELSE /\ tx_pc' = [tx_pc EXCEPT ![s] = "wait_fc"]
                   /\ fc_start' = [fc_start EXCEPT ![s] = tp_now]
                   /\ fc_began' = [fc_began EXCEPT ![s] = tp_now]
                   /\ UNCHANGED tx_result
    /\ UNCHANGED <<tpConfig, tp_subs, opened, closed, rx_buffer, tx_sn,
                   tx_block_size, tx_frames_in_block, rx_pc, rx_total,
                   rx_data, rx_result, nfed, npopped, n_env>>
    /\ UNCHANGED <<tp_now, tx_st_min, readerVars, schedVars, dbcVars, diagVars, traceVars, padVars>>

\* _wait_for_flow_control takes a flow control frame, lines 206-216, and
\* send goes on, lines 163-170 and 184-192
send_fc(s) ==
    /\ tx_pc[s] \in {"wait_fc", "wait_fc_block"}
    /\ tp_now - fc_start[s] < flow_control_timeout_ms
    /\ FirstMatch(s, "_is_flow_control_frame") # 0
    /\ LET i  == FirstMatch(s, "_is_flow_control_frame")
           fc == extractCF(rx_buffer[BufferOf(s)][i])
       IN  /\ rx_buffer' = PopAt(s, i)
           /\ npopped' = [npopped EXCEPT ![s] = @ + 1]
           /\ IF fc[1] = FCFS_WAIT
              THEN /\ fc_start' = [fc_start EXCEPT ![s] =
                                     StartAfterWait(@, tp_now)]
                   /\ UNCHANGED <<tx_pc, tx_result, tx_sn, tx_block_size,
                                  tx_frames_in_block, tx_st_min>>
              ELSE IF fc[1] = FCFS_OVFLW
              THEN /\ SendDone(s, FALSE)
                   /\ UNCHANGED <<tx_sn, tx_block_size, tx_frames_in_block,
                                  tx_st_min, fc_start>>
              ELSE IF tx_pc[s] = "wait_fc_block" /\ fc[1] # FCFS_CTS
              THEN /\ SendDone(s, FALSE)
                   /\ UNCHANGED <<tx_sn, tx_block_size, tx_frames_in_block,
                                  tx_st_min, fc_start>>
              ELSE /\ tx_block_size' = [tx_block_size EXCEPT ![s] = fc[2]]
                   /\ tx_st_min' = [tx_st_min EXCEPT ![s] =
                                      _interpret_st_min(fc[3])]
                   /\ tx_frames_in_block' =
                        [tx_frames_in_block EXCEPT ![s] = 0]
                   /\ tx_sn' = [tx_sn EXCEPT ![s] =
                                  IF tx_pc[s] = "wait_fc" THEN 0 ELSE @]
                   /\ tx_pc' = [tx_pc EXCEPT ![s] = "cf"]
                   /\ UNCHANGED <<tx_result, fc_start>>
    /\ UNCHANGED <<tpConfig, bus_rx, tp_subs, opened, closed, tx_remain,
                   rx_pc, rx_total, rx_data, rx_result, nfed, n_env>>
    /\ UNCHANGED <<tx_log, tp_now, fc_began, readerVars, schedVars, dbcVars, diagVars, traceVars, padVars>>

\* _wait_for_flow_control runs into its deadline, lines 204-208
send_fc_timeout(s) ==
    /\ tx_pc[s] \in {"wait_fc", "wait_fc_block"}
    /\ FirstMatch(s, "_is_flow_control_frame") = 0
    /\ TimedOut(s)
    /\ SendDone(s, FALSE)
    /\ UNCHANGED <<tpConfig, bus_rx, tp_subs, opened, closed, rx_buffer,
                   tx_remain, tx_sn, tx_block_size, tx_frames_in_block, rx_pc,
                   rx_total, rx_data, rx_result, nfed, npopped, n_env>>
    /\ UNCHANGED <<tx_log, fcVars, readerVars, schedVars, dbcVars, diagVars, traceVars, padVars>>

\* _wait_for_flow_control, lines 203-208: the wait ends at its deadline
\* (remaining_ms <= 0, or _pop_matching returns None); a frame that is
\* delivered at that time or later stays in the buffer
send_fc_deadline(s) ==
    /\ tx_pc[s] \in {"wait_fc", "wait_fc_block"}
    /\ tp_now - fc_start[s] >= flow_control_timeout_ms
    /\ SendDone(s, FALSE)
    /\ UNCHANGED <<tpConfig, bus_rx, tp_subs, opened, closed, rx_buffer,
                   tx_remain, tx_sn, tx_block_size, tx_frames_in_block, rx_pc,
                   rx_total, rx_data, rx_result, nfed, npopped, n_env>>
    /\ UNCHANGED <<tx_log, fcVars, readerVars, schedVars, dbcVars, diagVars, traceVars, padVars>>

\* the ECU side puts a flow control frame with the tester id on the bus
EnvFlowControl ==
    /\ n_env < MaxEnvFrames
    /\ n_env' = n_env + 1
    /\ \E f \in FcFrames : bus_rx' = Append(bus_rx, [id |-> 3, data |-> f])
    /\ UNCHANGED <<tpConfig, tp_subs, opened, closed, rx_buffer, tx_pc,
                   tx_remain, tx_sn, tx_block_size, tx_frames_in_block,
                   tx_result, rx_pc, rx_total, rx_data, rx_result, nfed,
                   npopped>>
    /\ UNCHANGED <<tx_log, fcVars, readerVars, schedVars, dbcVars, diagVars, traceVars, padVars>>

\* the First Frames among the frames session s has written
NumFF(s) ==
    Cardinality({i \in 1..Len(tx_log[s]) : tx_log[s][i].data[1] \div 16 = 1})

\* send has returned False and released tx_lock; the owner of session s
\* calls send again with the same data
send_again(s) ==
    /\ tx_pc[s] = "done"
    /\ ~tx_result[s]
    /\ NumFF(s) < MaxSends
    /\ tx_pc' = [tx_pc EXCEPT ![s] = "idle"]
    /\ UNCHANGED <<tpConfig, bus_rx, tp_subs, opened, closed, rx_buffer,
                   tx_remain, tx_sn, tx_block_size, tx_frames_in_block,
                   tx_result, rx_pc, rx_total, rx_data, rx_result, nfed,
                   npopped, n_env>>
    /\ UNCHANGED <<tx_log, fcVars, readerVars, schedVars, dbcVars, diagVars, traceVars, padVars>>

\* the ECU answers a First Frame of session A it has not answered yet with
\* a flow control frame (CTS, BS 0, STmin 20 ms), sooner or later
EcuAnswer ==
    /\ n_env < NumFF("A")
    /\ n_env' = n_env + 1
    /\ bus_rx' = Append(bus_rx, [id |-> 3,
                                  data |-> <<48, 0, 20, 0, 0, 0, 0, 0>>])
    /\ UNCHANGED <<tpConfig, tp_subs, opened, closed, rx_buffer, tx_pc,
                   tx_remain, tx_sn, tx_block_size, tx_frames_in_block,
                   tx_result, rx_pc, rx_total, rx_data, rx_result, nfed,
                   npopped>>
    /\ UNCHANGED <<tx_log, fcVars, readerVars, schedVars, dbcVars, diagVars, traceVars, padVars>>

\* time.monotonic() advances
TickMonotonic ==
    /\ tp_now < MaxMonotonic
    /\ tp_now' = tp_now + 1
    /\ UNCHANGED <<tpConfig, bus_rx, tp_subs, opened, closed, rx_buffer,
                   tx_pc, tx_remain, tx_sn, tx_block_size, tx_frames_in_block,
                   tx_result, rx_pc, rx_total, rx_data, rx_result, nfed,
                   npopped, n_env, tx_log, fc_start, fc_began, tx_st_min>>
    /\ UNCHANGED <<readerVars, schedVars, dbcVars, diagVars, traceVars, padVars>>

\* send, lines 172-183: one consecutive frame
send_cf(s) ==
    /\ tx_pc[s] = "cf"
    /\ LET sequence_number == increaseSN(tx_sn[s])
           cf == nextCF(sequence_number, tx_remain[s], chunk_length)
           frames_in_block == tx_frames_in_block[s] + 1
       IN  /\ tx_sn' = [tx_sn EXCEPT ![s] = sequence_number]
           /\ tx_remain' = [tx_remain EXCEPT ![s] = cf[2]]
           /\ bus_rx' = write(ecu_id[s], cf[1])
           /\ tx_log' = Logged(s, cf[1])
           /\ tx_frames_in_block' =
                [tx_frames_in_block EXCEPT ![s] = frames_in_block]
           /\ IF tx_block_size[s] # 0 /\ frames_in_block >= tx_block_size[s]
                 /\ cf[2] # <<>>
              THEN /\ tx_pc' = [tx_pc EXCEPT ![s] = "wait_fc_block"]
                   /\ fc_start' = [fc_start EXCEPT ![s] = tp_now]
                   /\ fc_began' = [fc_began EXCEPT ![s] = tp_now]
                   /\ UNCHANGED tx_result
              ELSE IF cf[2] = <<>>
              THEN /\ SendDone(s, TRUE)
                   /\ UNCHANGED <<fc_start, fc_began>>
              ELSE UNCHANGED <<tx_pc, tx_result, fc_start, fc_began>>
    /\ UNCHANGED <<tpConfig, tp_subs, opened, closed, rx_buffer,
                   tx_block_size, rx_pc, rx_total, rx_data, rx_result, nfed,
                   npopped, n_env>>
    /\ UNCHANGED <<tp_now, tx_st_min, readerVars, schedVars, dbcVars, diagVars, traceVars, padVars>>

\* receive is called, lines 106-109
receive_start(s) ==
    /\ rx_pc[s] = "idle"
    /\ _rx_lock_free(s)
    /\ rx_pc' = [rx_pc EXCEPT ![s] = "first"]
    /\ UNCHANGED <<tpConfig, bus_rx, tp_subs, opened, closed, rx_buffer,
                   tx_pc, tx_remain, tx_sn, tx_block_size, tx_frames_in_block,
                   tx_result, rx_total, rx_data, rx_result, nfed, npopped,
                   n_env>>
    /\ UNCHANGED <<tx_log, fcVars, readerVars, schedVars, dbcVars, diagVars, traceVars, padVars>>

\* receive, lines 109-134: the first transport frame
receive_first(s) ==
    /\ rx_pc[s] = "first"
    /\ FirstMatch(s, "_is_transport_payload") # 0
    /\ LET i == FirstMatch(s, "_is_transport_payload")
           first_frame == rx_buffer[BufferOf(s)][i]
           pci_type == _pci_type(first_frame)
           payload_length == IntOf(first_frame[1]) % 16
           ef == expectedFrames(first_frame, chunk_length)
       IN  /\ rx_buffer' = PopAt(s, i)
           /\ npopped' = [npopped EXCEPT ![s] = @ + 1]
           /\ IF pci_type = 0
              THEN /\ ReceiveDone(s, SubSeq(first_frame, 2,
                          Min(1 + payload_length, Len(first_frame))))
                   /\ UNCHANGED <<bus_rx, tx_log, rx_total, rx_data>>
              ELSE IF pci_type # 1
              THEN /\ ReceiveDone(s, <<>>)
                   /\ UNCHANGED <<bus_rx, tx_log, rx_total, rx_data>>
              ELSE /\ rx_total' = [rx_total EXCEPT ![s] = ef[2]]
                   /\ rx_data' = [rx_data EXCEPT ![s] = ef[3]]
                   /\ bus_rx' = write(ecu_id[s],
                                      build_payload(rx_flow_control[s]))
                   /\ tx_log' = Logged(s, build_payload(rx_flow_control[s]))
                   /\ rx_pc' = [rx_pc EXCEPT ![s] = "cf"]
                   /\ UNCHANGED rx_result
    /\ UNCHANGED <<tpConfig, tp_subs, opened, closed, tx_pc, tx_remain, tx_sn,
                   tx_block_size, tx_frames_in_block, tx_result, nfed, n_env>>
    /\ UNCHANGED <<fcVars, readerVars, schedVars, dbcVars, diagVars, traceVars, padVars>>

\* receive, lines 136-148: the loop over the consecutive frames
receive_cf(s) ==
    /\ rx_pc[s] = "cf"
    /\ IF Len(rx_data[s]) >= rx_total[s]
       THEN /\ ReceiveDone(s, SubSeq(rx_data[s], 1, rx_total[s]))
            /\ UNCHANGED <<rx_buffer, rx_data, npopped>>
       ELSE /\ FirstMatch(s, "_is_consecutive_frame") # 0
            /\ LET i  == FirstMatch(s, "_is_consecutive_frame")
                   cf == rx_buffer[BufferOf(s)][i]
               IN  /\ rx_buffer' = PopAt(s, i)
                   /\ rx_data' = [rx_data EXCEPT ![s] = @ \o Tail(cf)]
            /\ npopped' = [npopped EXCEPT ![s] = @ + 1]
            /\ UNCHANGED <<rx_pc, rx_result>>
    /\ UNCHANGED <<tpConfig, bus_rx, tp_subs, opened, closed, tx_pc,
                   tx_remain, tx_sn, tx_block_size, tx_frames_in_block,
                   tx_result, rx_total, nfed, n_env>>
    /\ UNCHANGED <<tx_log, fcVars, readerVars, schedVars, dbcVars, diagVars, traceVars, padVars>>

\* a wait of receive runs into its deadline, lines 110-112 and 137-145
receive_timeout(s) ==
    /\ \/ rx_pc[s] = "first" /\ FirstMatch(s, "_is_transport_payload") = 0
       \/ /\ rx_pc[s] = "cf"
          /\ Len(rx_data[s]) < rx_total[s]
          /\ FirstMatch(s, "_is_consecutive_frame") = 0
    /\ TimedOut(s)
    /\ ReceiveDone(s, <<>>)
    /\ UNCHANGED <<tpConfig, bus_rx, tp_subs, opened, closed, rx_buffer,
                   tx_pc, tx_remain, tx_sn, tx_block_size, tx_frames_in_block,
                   tx_result, rx_total, rx_data, nfed, npopped, n_env>>
    /\ UNCHANGED <<tx_log, fcVars, readerVars, schedVars, dbcVars, diagVars, traceVars, padVars>>

TPNext ==
    \/ TPDeliver
    \/ \E s \in Sessions :
         \/ send_start(s)
         \/ send_fc(s)
         \/ send_fc_timeout(s)
         \/ send_cf(s)
         \/ receive_start(s)
         \/ receive_first(s)
         \/ receive_cf(s)
         \/ receive_timeout(s)

\* the sessions whose owner calls send while both sessions are open
Senders == {"A"}

SessNext ==
    \/ EnvFrame
    \/ TPDeliver
    \/ \E s \in Senders :
         \/ send_start(s)
         \/ send_fc(s)
         \/ send_fc_timeout(s)
         \/ send_cf(s)
    \/ \E s \in Sessions :
         \/ _register_callback(s)
         \/ close(s)
         \/ receive_start(s)
         \/ receive_first(s)
         \/ receive_cf(s)
         \/ receive_timeout(s)

(***************************************************************************)
(* E2E/crc.py.  Integers are kept to 16 bits after every shift: the bits   *)
(* above bit 15 are never read by the loop and are masked off at its end.  *)
(***************************************************************************)
CRC_16_POLY == 4129
CRC_16_INIT == 65535
CRC_16_FINAL_XOR == 0
CRC16_WIDTH == 16

RECURSIVE BitXor(_, _, _)
BitXor(a, b, n) ==
    IF n = 0 THEN 0
    ELSE (((a % 2) + (b % 2)) % 2) + 2 * BitXor(a \div 2, b \div 2, n - 1)

Xor16(a, b) == BitXor(a, b, CRC16_WIDTH)

\* one pass of the inner loop: crc = (crc << 1) ^ POLY if bit 15 is set,
\* crc <<= 1 otherwise
crc16_shift(crc) ==
    IF (crc \div 2^(CRC16_WIDTH - 1)) % 2 = 1
    THEN Xor16((crc * 2) % 2^CRC16_WIDTH, CRC_16_POLY)
    ELSE (crc * 2) % 2^CRC16_WIDTH

\* k passes of the inner loop
RECURSIVE crc16_bits(_, _)
crc16_bits(crc, k) ==
    IF k = 0 THEN crc ELSE crc16_shift(crc16_bits(crc, k - 1))

\* the crc after the first n bytes of data (the crc of the shorter prefix
\* is evaluated before the next byte is folded in)
RECURSIVE crc16_from(_, _)
crc16_from(data, n) ==
    IF n = 0 THEN CRC_16_INIT
    ELSE LET crc == crc16_from(data, n - 1)
         IN  IF crc < 2^CRC16_WIDTH
             THEN crc16_bits(Xor16(crc, data[n] * 2^(CRC16_WIDTH - 8)), 8)
             ELSE crc

crc16_canfd(data) == Xor16(crc16_from(data, Len(data)), CRC_16_FINAL_XOR)

\* the mutant of _build_crc_payload: the first two bytes are not left out
_build_crc_payload_Whole(msg_id, data_frame) ==
    LET suffix == (63488 + msg_id) % 4096
    IN  data_frame \o <<suffix % 256, (suffix \div 256) % 256>>

_build_crc_payload(msg_id, data_frame) ==
    LET suffix == (63488 + msg_id) % 4096
    IN  SubSeq(data_frame, 3, Len(data_frame))
          \o <<suffix % 256, (suffix \div 256) % 256>>

crc_calculate_cy(msg_id, data_frame) ==
    crc16_canfd(_build_crc_payload(msg_id, data_frame))

(***************************************************************************)
(* E2E/DbcAdapter.py, one message of the database.  The message carries    *)
(* the signals Speed (no minimum, maximum 3), Mode (minimum 1, no          *)
(* maximum), Free (no bounds), an alive counter AlvCnt in 0..15 and a 16   *)
(* bit Crc; its comment marks it as event-triggered or not.  A missing     *)
(* bound (None) is the empty sequence, a bound b is <<b>>.                 *)
(***************************************************************************)
MaxCalls == 4

SigNames == {"Speed", "Mode", "Free", "AlvCnt", "Crc"}
PushValues == {0, 15}
frame_id == 291

message_trim ==
    [s \in SigNames |->
       CASE s = "Speed"  -> [minimum |-> <<>>,  maximum |-> <<3>>]
         [] s = "Mode"   -> [minimum |-> <<1>>, maximum |-> <<>>]
         [] s = "Free"   -> [minimum |-> <<>>,  maximum |-> <<>>]
         [] s = "AlvCnt" -> [minimum |-> <<0>>, maximum |-> <<15>>]
         [] s = "Crc"    -> [minimum |-> <<0>>, maximum |-> <<65535>>]]

Max(a, b) == IF a > b THEN a ELSE b

trim(value, min_val, max_val) ==
    LET v1 == IF min_val # <<>> THEN Max(min_val[1], value) ELSE value
    IN  IF max_val # <<>> THEN Min(v1, max_val[1]) ELSE v1

\* raw_initial is 0 for every signal, scale 1, offset 0
initial ==
    [s \in SigNames |->
       trim(0, message_trim[s].minimum, message_trim[s].maximum)]

\* cantools' Message.encode for this message's layout: Crc in bytes 0..1
\* (little endian), then one byte per signal
encode(signals) ==
    << signals["Crc"] % 256, (signals["Crc"] \div 256) % 256,
       signals["AlvCnt"] % 256, signals["Speed"] % 256,
       signals["Mode"] % 256, signals["Free"] % 256 >>

\* the value of signal s in an encoded payload
Decoded(payload, s) ==
    CASE s = "Crc"    -> payload[1] + 256 * payload[2]
      [] s = "AlvCnt" -> payload[3]
      [] s = "Speed"  -> payload[4]
      [] s = "Mode"   -> payload[5]
      [] s = "Free"   -> payload[6]

\* dict.update
DictUpdate(d, updates) ==
    [k \in DOMAIN d |-> IF k \in DOMAIN updates THEN updates[k] ELSE d[k]]

\* the adapter with nothing pending and no call in progress
DbcFresh ==
    /\ current_signals = initial
    /\ signal_queues = <<>>
    /\ gp_pc = "idle"
    /\ signals_snapshot = initial
    /\ gp_payload = <<>>
    /\ n_calls = 0
    /\ quiet = 0
    /\ last_push = <<>>
    /\ gp_push = <<>>
    /\ gp_clean = FALSE
    /\ reset_clean = FALSE
    /\ last_call = <<>>

\* the adapter of the specifications that do not use it
DbcIdle == on_event = FALSE /\ DbcFresh

\* messages_atrributes["On_event"] comes from the message comment
DbcInit == on_event \in BOOLEAN /\ DbcFresh

\* current_signals after k get_payload calls that each refreshed the alive
\* counter, nothing else having been pushed
AfterCalls(k) ==
    IF k = 0 THEN initial
    ELSE LET counted == [initial EXCEPT !["AlvCnt"] = k % 256]
         IN  [counted EXCEPT
                !["Crc"] = crc_calculate_cy(frame_id, encode(counted))]

\* the numbers of earlier calls the adapter is started after
AlvStarts == {0, 255}

\* the adapter at rest after such calls
AlvInit ==
    /\ on_event \in BOOLEAN
    /\ current_signals \in {AfterCalls(k) : k \in AlvStarts}
    /\ signal_queues = <<>>
    /\ gp_pc = "idle"
    /\ signals_snapshot = initial
    /\ gp_payload = <<>>
    /\ n_calls = 0
    /\ quiet = 0
    /\ last_push = <<>>
    /\ gp_push = <<>>
    /\ gp_clean = FALSE
    /\ reset_clean = FALSE
    /\ last_call = <<>>

\* collections.deque(maxlen=maxlen).append: a full deque drops its oldest
\* record
maxlen == 1

deque_append_Unbounded(queue, record) == Append(queue, record)

deque_append(queue, record) ==
    IF Len(queue) >= maxlen
    THEN SubSeq(queue, Len(queue) - maxlen + 2, Len(queue)) \o <<record>>
    ELSE Append(queue, record)

\* push_signals(message_name, {signal: value}), one lock section
push_signals(signal, value) ==
    /\ n_calls < MaxCalls
    /\ LET trimmed_signals ==
             signal :> trim(value, message_trim[signal].minimum,
                                   message_trim[signal].maximum)
       IN  /\ current_signals' = DictUpdate(current_signals, trimmed_signals)
           \* deque(maxlen=1).append drops the record that was pending
           /\ signal_queues' = deque_append(signal_queues, trimmed_signals)
    /\ n_calls' = n_calls + 1
    /\ quiet' = 0
    /\ last_push' = <<[signal |-> signal, value |-> value]>>
    /\ reset_clean' = FALSE
    /\ UNCHANGED <<on_event, gp_pc, signals_snapshot, gp_payload, gp_push,
                   gp_clean, last_call>>
    /\ UNCHANGED <<readerVars, schedVars, tpVars, diagVars, traceVars, padVars>>

\* get_payload's alvcnt_update after the test of the pending FIFO; Group is
\* true: the message has an AlvCnt signal
alvcnt_update_Always(pending) == TRUE

alvcnt_update(pending) == (~on_event) \/ pending

\* get_payload, first lock section: the pending record, the alive counter
\* and the snapshot
get_payload_snapshot ==
    /\ gp_pc = "idle"
    /\ n_calls < MaxCalls
    /\ LET pending == signal_queues # <<>>
           applied == IF pending
                      THEN DictUpdate(current_signals, Head(signal_queues))
                      ELSE current_signals
           counted == IF alvcnt_update(pending)
                      THEN [applied EXCEPT !["AlvCnt"] = (@ + 1) % 256]
                      ELSE applied
       IN  /\ current_signals' = counted
           /\ signals_snapshot' = counted
           \* popleft
           /\ signal_queues' = IF pending THEN Tail(signal_queues)
                                ELSE signal_queues
    /\ gp_pc' = "crc"
    /\ n_calls' = n_calls + 1
    /\ gp_push' = last_push
    /\ gp_clean' = reset_clean
    /\ quiet' = Min(quiet + 1, 2)
    /\ reset_clean' = FALSE
    /\ UNCHANGED <<on_event, gp_payload, last_push, last_call>>
    /\ UNCHANGED <<readerVars, schedVars, tpVars, diagVars, traceVars, padVars>>

\* get_payload, after the first lock section: encode, compute the CRC,
\* store it in a second lock section, encode again and return
get_payload_crc ==
    /\ gp_pc = "crc"
    /\ LET crc_calc == crc_calculate_cy(frame_id, encode(signals_snapshot))
           stamped  == [signals_snapshot EXCEPT !["Crc"] = crc_calc]
       IN  /\ current_signals' = [current_signals EXCEPT !["Crc"] = crc_calc]
           /\ gp_payload' = encode(stamped)
    /\ signals_snapshot' = initial
    /\ gp_pc' = "idle"
    /\ gp_push' = <<>>
    /\ gp_clean' = FALSE
    /\ UNCHANGED <<on_event, signal_queues, n_calls, quiet, last_push,
                   reset_clean, last_call>>
    /\ UNCHANGED <<readerVars, schedVars, tpVars, diagVars, traceVars, padVars>>

\* reset_message(message_name), one lock section
reset_message ==
    /\ n_calls < MaxCalls
    /\ current_signals' = initial
    /\ signal_queues' = <<>>
    /\ n_calls' = n_calls + 1
    /\ quiet' = 0
    /\ last_push' = <<>>
    /\ reset_clean' = TRUE
    /\ UNCHANGED <<on_event, gp_pc, signals_snapshot, gp_payload, gp_push,
                   gp_clean, last_call>>
    /\ UNCHANGED <<readerVars, schedVars, tpVars, diagVars, traceVars, padVars>>

\* the names push_signals is called with: the message of the database and a
\* name the database does not have
MessageNames == {"Msg", "Nope"}
KnownMessages == {"Msg"}

\* a value that is not a number (a str, None)
NonNumeric == -1

\* the batches pushed: one or two of the signals Speed, Free and Bogus (not
\* a signal of the message), each with a number or a non-numeric value
BatchSignals == {"Speed", "Free", "Bogus"}
BatchValues == {15, NonNumeric}
Batches ==
    UNION {[d -> BatchValues] : d \in (SUBSET BatchSignals) \ {{}, BatchSignals}}

\* trim raises (TypeError) when max() or min() compares a non-number with a
\* bound; without a bound nothing is compared
trim_raises(value, min_val, max_val) ==
    value = NonNumeric /\ (min_val # <<>> \/ max_val # <<>>)

\* the body of the try block raises: KeyError of message_trim[m][signal],
\* or the error of trim
PushRaises(signal, value) ==
    \/ signal \notin SigNames
    \/ trim_raises(value, message_trim[signal].minimum,
                          message_trim[signal].maximum)

\* push_signals(message_name, signals) with a batch, one lock section
push_signals_batch(message_name, signals) ==
    /\ n_calls < MaxCalls
    /\ n_calls' = n_calls + 1
    /\ IF message_name \notin KnownMessages
       THEN /\ last_call' = [message_name |-> message_name,
                             signals |-> signals, raised |-> "KeyError"]
            /\ UNCHANGED <<current_signals, signal_queues, quiet, last_push,
                           reset_clean>>
       ELSE LET kept == {k \in DOMAIN signals : ~PushRaises(k, signals[k])}
                trimmed_signals ==
                  [k \in kept |->
                     trim(signals[k], message_trim[k].minimum,
                                      message_trim[k].maximum)]
            IN  /\ current_signals' =
                     DictUpdate(current_signals, trimmed_signals)
                /\ signal_queues' = deque_append(signal_queues, trimmed_signals)
                /\ last_call' = [message_name |-> message_name,
                                 signals |-> signals, raised |-> "no"]
                /\ quiet' = 0
                /\ last_push' = <<>>
                /\ reset_clean' = FALSE
    /\ UNCHANGED <<on_event, gp_pc, signals_snapshot, gp_payload, gp_push,
                   gp_clean>>
    /\ UNCHANGED <<readerVars, schedVars, tpVars, diagVars, traceVars, padVars>>

PushNext ==
    \/ \E message_name \in MessageNames, signals \in Batches :
         push_signals_batch(message_name, signals)
    \/ reset_message

DbcNext ==
    \/ \E signal \in SigNames, value \in PushValues :
         push_signals(signal, value)
    \/ get_payload_snapshot
    \/ get_payload_crc
    \/ reset_message

(***************************************************************************)
(* COMDIAG/ComDia.py over cantp.send and cantp.receive.  A request is the  *)
(* text the caller passes: hex digits 0..15 (upper case), lower case       *)
(* letters a..f as Lower(10)..Lower(15), and SP.  A response PDU is a      *)
(* sequence of bytes; cantp.receive returns it as two character strings.   *)
(***************************************************************************)
MaxResponses == 3
MaxDiagClock == 3
DiagTimeout == 2

Lower(d) == d + 16
Upper(c) == IF c >= Lower(10) /\ c <= Lower(15) THEN c - 16 ELSE c
\* the character 'X' of hex() of a negative number
XCH == 32

\* Hex(input_value): hex()[2:], padded to an even length, split in pairs,
\* joined by ' ', upper case; for a negative number hex() is '-0x..'
Hex(input_value) ==
    IF input_value >= 0 THEN HexPair(input_value)
    ELSE IF 0 - input_value < 16 THEN <<XCH, 0 - input_value>>
    ELSE <<0, XCH, SP, (0 - input_value) \div 16, (0 - input_value) % 16>>

\* SID = raw_msg.strip().replace(" ", "")[:2]
SidOf(raw_msg) ==
    SubSeq(SelectSeq(raw_msg, LAMBDA c : c # SP), 1, 2)

\* "22 F1", "2E 01" and "2e 01"
Requests ==
    { <<2, 2, SP, 15, 1>>, <<2, 14, SP, 0, 1>>, <<2, Lower(14), SP, 0, 1>> }

\* the service id of a request as a number
SidByte(raw_msg) == Upper(SidOf(raw_msg)[1]) * 16 + Upper(SidOf(raw_msg)[2])

Pending(sid) == <<127, sid, 120>>
Positive(sid) == <<sid + 64, 241>>
Negative(sid) == <<127, sid, 49>>
\* responses to other requests: 50 03, and 6E 22
Unrelated == { <<80, 3>>, <<110, 34>> }

ResponsesTo(raw_msg) ==
    LET sid == SidByte(raw_msg)
    IN  {Pending(sid), Positive(sid), Negative(sid)} \cup Unrelated

ScriptsFor(raw_msg) ==
    UNION {[1..n -> ResponsesTo(raw_msg)] : n \in 0..MaxResponses}

\* NRC_check(req)
NRC_check(req) == req[1] = <<7, 15>>

\* ComDiag.receive re-waits on this response
IsPendingResponse(recv) ==
    recv # <<>> /\ NRC_check(recv) /\ Len(recv) > 2 /\ IntOf(recv[3]) = 120

\* lines 98-107 of send_and_received: recv when its first or second byte
\* is SID or SID + 0x40, None otherwise
MatchedResponse(recv, SID) ==
    IF recv = <<>> THEN <<>>
    ELSE IF recv[1] = SID \/ Hex(IntOf(recv[1]) - 64) = SID THEN recv
    ELSE IF Len(recv) > 1
            /\ (recv[2] = SID \/ Hex(IntOf(recv[2]) - 64) = SID) THEN recv
    ELSE <<>>

\* keep-alive loop threads the model can create, the interval of the loop, the
\* clock and the number of start/stop calls
MaxThreads == 3
Threads == 1..MaxThreads
Interval == 2
MaxKaClock == 5
MaxKaCalls == 4

\* threading.Thread.is_alive of self.thread
thread_is_alive_Never(t) == FALSE

thread_is_alive(t) == t # 0 /\ ka_pc[t] \in {"check", "send", "sleep"}

DiagIdle ==
    /\ dg_req = <<>>
    /\ dg_script = <<>>
    /\ dg_idx = 0
    /\ dg_rx = <<>>
    /\ dg_pc = "idle"
    /\ dg_send = FALSE
    /\ dg_now = 0
    /\ dg_start = 0
    /\ dg_rstart = 0
    /\ dg_result = <<>>
    /\ dg_timed_out = FALSE
    /\ ul_pc = "idle"
    /\ ul_sent = <<>>
    /\ ul_seed_recv = <<>>
    /\ ul_key = "none"
    /\ ul_key_recv = <<>>
    /\ ul_result = "none"
    /\ keep_alive = FALSE
    /\ ka_thread = 0
    /\ ka_pc = [t \in Threads |-> "none"]
    /\ ka_wake = [t \in Threads |-> 0]
    /\ ka_sent = [t \in Threads |-> <<>>]
    /\ ka_now = 0
    /\ ka_ctl = "idle"
    /\ ka_calls = 0
    /\ ka_stopped = FALSE
    /\ ka_total = <<0, 0>>

\* send_and_received(raw_msg), lines 86-94: send, start_time, first receive
sar_send(raw_msg, script, ok) ==
    /\ dg_pc = "idle"
    /\ dg_req' = raw_msg
    /\ dg_script' = script
    /\ dg_send' = ok
    /\ dg_start' = dg_now
    /\ dg_rstart' = dg_now
    /\ dg_pc' = IF ok THEN "recv" ELSE "done"
    /\ UNCHANGED <<dg_idx, dg_rx, dg_now, dg_result, dg_timed_out>>
    /\ UNCHANGED <<kaVars, readerVars, schedVars, tpVars, dbcVars, traceVars, padVars>>

\* the next response of the ECU has been reassembled by the transport layer
EcuRespond ==
    /\ dg_pc = "recv"
    /\ dg_idx < Len(dg_script)
    /\ dg_idx' = dg_idx + 1
    /\ dg_rx' = Append(dg_rx, dg_script[dg_idx + 1])
    /\ UNCHANGED <<dg_req, dg_script, dg_pc, dg_send, dg_now, dg_start,
                   dg_rstart, dg_result, dg_timed_out>>
    /\ UNCHANGED <<ulVars, kaVars, readerVars, schedVars, tpVars, dbcVars, traceVars, padVars>>

\* cantp.receive returns a response: ComDiag.receive calls itself after a
\* pending response, else send_and_received leaves its loop and returns
receive_response ==
    /\ dg_pc = "recv"
    /\ dg_rx # <<>>
    /\ dg_rx' = Tail(dg_rx)
    /\ LET recv == HexArr2StrArr(Head(dg_rx))
       IN  IF IsPendingResponse(recv)
           THEN /\ dg_rstart' = dg_now
                /\ UNCHANGED <<dg_pc, dg_result>>
           ELSE /\ dg_pc' = "done"
                /\ dg_result' = MatchedResponse(recv, SidOf(dg_req))
                /\ UNCHANGED dg_rstart
    /\ UNCHANGED <<dg_req, dg_script, dg_idx, dg_send, dg_now, dg_start,
                   dg_timed_out>>
    /\ UNCHANGED <<ulVars, kaVars, readerVars, schedVars, tpVars, dbcVars, traceVars, padVars>>

\* cantp.receive returns [] after timeout ms: the loop of line 95 polls
\* again while the overall time is below timeout
receive_timeout_diag ==
    /\ dg_pc = "recv"
    /\ dg_rx = <<>>
    /\ dg_now - dg_rstart >= DiagTimeout
    /\ dg_timed_out' = TRUE
    /\ IF dg_now - dg_start < DiagTimeout
       THEN /\ dg_rstart' = dg_now
            /\ UNCHANGED <<dg_pc, dg_result>>
       ELSE /\ dg_pc' = "done"
            /\ dg_result' = <<>>
            /\ UNCHANGED dg_rstart
    /\ UNCHANGED <<dg_req, dg_script, dg_idx, dg_rx, dg_send, dg_now,
                   dg_start>>
    /\ UNCHANGED <<ulVars, kaVars, readerVars, schedVars, tpVars, dbcVars, traceVars, padVars>>

DiagTick ==
    /\ dg_pc = "recv"
    /\ dg_now < MaxDiagClock
    /\ dg_now' = dg_now + 1
    /\ UNCHANGED <<dg_req, dg_script, dg_idx, dg_rx, dg_pc, dg_send, dg_start,
                   dg_rstart, dg_result, dg_timed_out>>
    /\ UNCHANGED <<ulVars, kaVars, readerVars, schedVars, tpVars, dbcVars, traceVars, padVars>>

DiagNext ==
    \/ \E raw_msg \in Requests, ok \in BOOLEAN :
         \E script \in ScriptsFor(raw_msg) :
           sar_send(raw_msg, script, ok) /\ UNCHANGED ulVars
    \/ EcuRespond
    \/ receive_response
    \/ receive_timeout_diag
    \/ DiagTick

\* "27 11", and "27 12" + key with the key "AB"
SeedRequest == <<2, 7, SP, 1, 1>>
KeyRequest == <<2, 7, SP, 1, 2>> \o <<10, 11>>

\* get_key: no dll path; ASK_KeyGenerate returns None (the helper failed),
\* a text that is not hexadecimal, or a key
KeyOutcomes == {"no_dll", "helper_failed", "not_hex", "key"}

\* what get_key does with the outcome: int(None, 16) raises TypeError, which
\* the except ValueError clause does not catch
get_key_raises(outcome) == outcome = "helper_failed"

\* unlock_security, line 172: send_and_received("27 11")
unlock_request_seed(script, ok) ==
    /\ ul_pc = "idle"
    /\ sar_send(SeedRequest, script, ok)
    /\ ul_pc' = "seed"
    /\ ul_sent' = Append(ul_sent, SeedRequest)
    /\ UNCHANGED <<ul_seed_recv, ul_key, ul_key_recv, ul_result>>

\* the helper is ready for its next send_and_received
SarReturned ==
    /\ dg_pc' = "idle"
    /\ dg_idx' = 0
    /\ dg_script' = <<>>
    /\ dg_timed_out' = FALSE
    /\ UNCHANGED <<dg_req, dg_rx, dg_send, dg_now, dg_start, dg_rstart,
                   dg_result>>

\* lines 173-178: the seed response
unlock_after_seed ==
    /\ ul_pc = "seed"
    /\ dg_pc = "done"
    /\ SarReturned
    /\ ul_seed_recv' = dg_result
    /\ IF dg_result = <<>> \/ NRC_check(dg_result)
       THEN ul_pc' = "done" /\ ul_result' = "False"
       ELSE ul_pc' = "get_key" /\ UNCHANGED ul_result
    /\ UNCHANGED <<ul_sent, ul_key, ul_key_recv>>
    /\ UNCHANGED <<kaVars, readerVars, schedVars, tpVars, dbcVars, traceVars, padVars>>

\* lines 179-182: get_key does not deliver a key
unlock_get_key_fail(outcome) ==
    /\ ul_pc = "get_key"
    /\ outcome # "key"
    /\ ul_key' = outcome
    /\ ul_pc' = "done"
    /\ ul_result' = IF get_key_raises(outcome) THEN "TypeError" ELSE "False"
    /\ UNCHANGED <<ul_sent, ul_seed_recv, ul_key_recv>>
    /\ UNCHANGED <<dg_req, dg_script, dg_idx, dg_rx, dg_pc, dg_send, dg_now,
                   dg_start, dg_rstart, dg_result, dg_timed_out>>
    /\ UNCHANGED <<kaVars, readerVars, schedVars, tpVars, dbcVars, traceVars, padVars>>

\* lines 179-183: a key, and send_and_received("27 12" + key)
unlock_send_key(script, ok) ==
    /\ ul_pc = "get_key"
    /\ sar_send(KeyRequest, script, ok)
    /\ ul_key' = "key"
    /\ ul_pc' = "key"
    /\ ul_sent' = Append(ul_sent, KeyRequest)
    /\ UNCHANGED <<ul_seed_recv, ul_key_recv, ul_result>>

\* lines 184-189: NRC_check(recv) on the key response; recv[0] of None
\* raises TypeError
unlock_after_key ==
    /\ ul_pc = "key"
    /\ dg_pc = "done"
    /\ SarReturned
    /\ ul_key_recv' = dg_result
    /\ ul_pc' = "done"
    /\ ul_result' = IF dg_result = <<>> THEN "TypeError"
                    ELSE IF NRC_check(dg_result) THEN "False"
                    ELSE "True"
    /\ UNCHANGED <<ul_sent, ul_seed_recv, ul_key>>
    /\ UNCHANGED <<kaVars, readerVars, schedVars, tpVars, dbcVars, traceVars, padVars>>

UnlockNext ==
    \/ \E ok \in BOOLEAN : \E script \in ScriptsFor(SeedRequest) :
         unlock_request_seed(script, ok)
    \/ unlock_after_seed
    \/ \E outcome \in KeyOutcomes : unlock_get_key_fail(outcome)
    \/ \E ok \in BOOLEAN : \E script \in ScriptsFor(KeyRequest) :
         unlock_send_key(script, ok)
    \/ unlock_after_key
    \/ EcuRespond
    \/ receive_response
    \/ receive_timeout_diag
    \/ DiagTick

\* what the keep-alive actions leave alone
KaRest ==
    UNCHANGED <<dg_req, dg_script, dg_idx, dg_rx, dg_pc, dg_send, dg_now,
                dg_start, dg_rstart, dg_result, dg_timed_out, ulVars,
                readerVars, schedVars, tpVars, dbcVars, traceVars, padVars>>

\* start_tester_present, lines 133-135: a loop is alive, nothing is started
start_tester_present_running ==
    /\ ka_ctl = "idle"
    /\ ka_calls < MaxKaCalls
    /\ thread_is_alive(ka_thread)
    /\ ka_calls' = ka_calls + 1
    /\ UNCHANGED <<keep_alive, ka_thread, ka_pc, ka_wake, ka_sent, ka_now,
                   ka_ctl, ka_stopped, ka_total>>
    /\ KaRest

\* start_tester_present, lines 137-143: keep_alive = True, a new thread starts
start_tester_present ==
    /\ ka_ctl = "idle"
    /\ ka_calls < MaxKaCalls
    /\ ~thread_is_alive(ka_thread)
    /\ ka_thread < MaxThreads
    /\ ka_calls' = ka_calls + 1
    /\ keep_alive' = TRUE
    /\ ka_thread' = ka_thread + 1
    /\ ka_pc' = [ka_pc EXCEPT ![ka_thread + 1] = "check"]
    /\ ka_stopped' = FALSE
    /\ UNCHANGED <<ka_wake, ka_sent, ka_now, ka_ctl, ka_total>>
    /\ KaRest

\* stop_tester_present, lines 148-150: no loop is meant to run
stop_tester_present_idle ==
    /\ ka_ctl = "idle"
    /\ ka_calls < MaxKaCalls
    /\ ~keep_alive
    /\ ka_calls' = ka_calls + 1
    /\ ka_stopped' = TRUE
    /\ ka_total' = <<ka_total[1], ka_total[1]>>
    /\ UNCHANGED <<keep_alive, ka_thread, ka_pc, ka_wake, ka_sent, ka_now,
                   ka_ctl>>
    /\ KaRest

\* stop_tester_present, lines 152-153: keep_alive = False, then join
stop_tester_present_begin ==
    /\ ka_ctl = "idle"
    /\ ka_calls < MaxKaCalls
    /\ keep_alive
    /\ ka_calls' = ka_calls + 1
    /\ keep_alive' = FALSE
    /\ ka_ctl' = "join"
    /\ UNCHANGED <<ka_thread, ka_pc, ka_wake, ka_sent, ka_now, ka_stopped,
                   ka_total>>
    /\ KaRest

\* stop_tester_present, lines 154-155: thread.join() returns
stop_tester_present_join ==
    /\ ka_ctl = "join"
    /\ ka_thread = 0 \/ ~thread_is_alive(ka_thread)
    /\ ka_ctl' = "idle"
    /\ ka_stopped' = TRUE
    /\ ka_total' = <<ka_total[1], ka_total[1]>>
    /\ UNCHANGED <<keep_alive, ka_thread, ka_pc, ka_wake, ka_sent, ka_now,
                   ka_calls>>
    /\ KaRest

\* _tester_present_loop, line 121: while self.keep_alive
loop_check(t) ==
    /\ ka_pc[t] = "check"
    /\ ka_pc' = [ka_pc EXCEPT ![t] = IF keep_alive THEN "send" ELSE "dead"]
    /\ UNCHANGED <<keep_alive, ka_thread, ka_wake, ka_sent, ka_now, ka_ctl,
                   ka_calls, ka_stopped, ka_total>>
    /\ KaRest

\* lines 122-125: send_tester_present (whatever its result), then time.sleep
loop_send(t) ==
    /\ ka_pc[t] = "send"
    /\ ka_sent' = [ka_sent EXCEPT ![t] =
                     IF @ = <<>> THEN <<1, ka_now>> ELSE <<@[1] + 1, ka_now>>]
    /\ ka_total' = <<ka_total[1] + 1, ka_total[2]>>
    /\ ka_wake' = [ka_wake EXCEPT ![t] = ka_now + Interval]
    /\ ka_pc' = [ka_pc EXCEPT ![t] = "sleep"]
    /\ UNCHANGED <<keep_alive, ka_thread, ka_now, ka_ctl, ka_calls,
                   ka_stopped>>
    /\ KaRest

\* line 125: time.sleep(interval_sec) returns
loop_wake(t) ==
    /\ ka_pc[t] = "sleep"
    /\ ka_now >= ka_wake[t]
    /\ ka_pc' = [ka_pc EXCEPT ![t] = "check"]
    /\ UNCHANGED <<keep_alive, ka_thread, ka_wake, ka_sent, ka_now, ka_ctl,
                   ka_calls, ka_stopped, ka_total>>
    /\ KaRest

KaTick ==
    /\ ka_now < MaxKaClock
    /\ ka_now' = ka_now + 1
    /\ UNCHANGED <<keep_alive, ka_thread, ka_pc, ka_wake, ka_sent, ka_ctl,
                   ka_calls, ka_stopped, ka_total>>
    /\ KaRest

KaNext ==
    \/ start_tester_present_running
    \/ start_tester_present
    \/ stop_tester_present_idle
    \/ stop_tester_present_begin
    \/ stop_tester_present_join
    \/ \E t \in Threads : loop_check(t)
    \/ \E t \in Threads : loop_send(t)
    \/ \E t \in Threads : loop_wake(t)
    \/ KaTick

(***************************************************************************)
(* CANInterface: the bounded trace queue (CANIF/CANInterface.py)           *)
(***************************************************************************)
\* capacity of the trace queue (500 in the source), frames traced per run
TraceCap == 2
MaxItems == 4

\* a scheduler thread's TX hook (_notify_tx) and the reader's trace hook
\* (_on_trace_rx)
Producers == {"tx", "rx"}

TraceIdle ==
    /\ trace_queue = <<>>
    /\ trace_enqueued_count = 0
    /\ trace_dropped_count = 0
    /\ tr_pc = [p \in Producers |-> "idle"]
    /\ tr_item = [p \in Producers |-> 0]
    /\ tr_tmp = [p \in Producers |-> 0]
    /\ tr_next = 1
    /\ tr_full_calls = 0
    /\ tr_lost = {}
    /\ tr_consumed = 0

TraceRest ==
    UNCHANGED <<readerVars, schedVars, tpVars, dbcVars, diagVars, padVars>>

\* queue.Queue.put_nowait: the queue after the call; unchanged when it raises Full
put_nowait(q, item) == IF Len(q) < TraceCap THEN Append(q, item) ELSE q

\* _notify_tx / _on_trace_rx with log_active: _trace_put, and the first
\* put_nowait of _bounded_put (lines 86-87)
trace_put(p) ==
    /\ tr_pc[p] = "idle"
    /\ tr_next <= MaxItems
    /\ tr_item' = [tr_item EXCEPT ![p] = tr_next]
    /\ tr_next' = tr_next + 1
    /\ trace_queue' = put_nowait(trace_queue, tr_next)
    /\ IF Len(trace_queue) < TraceCap
       THEN /\ tr_pc' = [tr_pc EXCEPT ![p] = "enq_read"]
            /\ UNCHANGED tr_full_calls
       ELSE /\ tr_pc' = [tr_pc EXCEPT ![p] = "evict"]
            /\ tr_full_calls' = tr_full_calls + 1
    /\ UNCHANGED <<trace_enqueued_count, trace_dropped_count, tr_tmp,
                   tr_lost, tr_consumed>>
    /\ TraceRest

\* lines 92-95: get_nowait, queue.Empty ignored
bounded_put_evict(p) ==
    /\ tr_pc[p] = "evict"
    /\ trace_queue' = IF trace_queue = <<>> THEN <<>> ELSE Tail(trace_queue)
    /\ tr_pc' = [tr_pc EXCEPT ![p] = "drop_read"]
    /\ UNCHANGED <<trace_enqueued_count, trace_dropped_count, tr_item,
                   tr_tmp, tr_next, tr_full_calls, tr_lost, tr_consumed>>
    /\ TraceRest

\* line 97: self.trace_dropped_count += 1, the read
bounded_put_drop_read(p) ==
    /\ tr_pc[p] = "drop_read"
    /\ tr_tmp' = [tr_tmp EXCEPT ![p] = trace_dropped_count]
    /\ tr_pc' = [tr_pc EXCEPT ![p] = "drop_write"]
    /\ UNCHANGED <<trace_queue, trace_enqueued_count, trace_dropped_count,
                   tr_item, tr_next, tr_full_calls, tr_lost, tr_consumed>>
    /\ TraceRest

\* line 97: the write
bounded_put_drop_write(p) ==
    /\ tr_pc[p] = "drop_write"
    /\ trace_dropped_count' = tr_tmp[p] + 1
    /\ tr_pc' = [tr_pc EXCEPT ![p] = "put2"]
    /\ UNCHANGED <<trace_queue, trace_enqueued_count, tr_item, tr_tmp,
                   tr_next, tr_full_calls, tr_lost, tr_consumed>>
    /\ TraceRest

\* lines 98-105: the second put_nowait; on queue.Full the frame is given up
bounded_put_again(p) ==
    /\ tr_pc[p] = "put2"
    /\ trace_queue' = put_nowait(trace_queue, tr_item[p])
    /\ IF Len(trace_queue) < TraceCap
       THEN /\ tr_pc' = [tr_pc EXCEPT ![p] = "enq_read"]
            /\ UNCHANGED tr_lost
       ELSE /\ tr_pc' = [tr_pc EXCEPT ![p] = "idle"]
            /\ tr_lost' = tr_lost \cup {tr_item[p]}
    /\ UNCHANGED <<trace_enqueued_count, trace_dropped_count, tr_item,
                   tr_tmp, tr_next, tr_full_calls, tr_consumed>>
    /\ TraceRest

\* lines 89 and 101: self.trace_enqueued_count += 1, the read
bounded_put_enq_read(p) ==
    /\ tr_pc[p] = "enq_read"
    /\ tr_tmp' = [tr_tmp EXCEPT ![p] = trace_enqueued_count]
    /\ tr_pc' = [tr_pc EXCEPT ![p] = "enq_write"]
    /\ UNCHANGED <<trace_queue, trace_enqueued_count, trace_dropped_count,
                   tr_item, tr_next, tr_full_calls, tr_lost, tr_consumed>>
    /\ TraceRest

\* lines 89 and 101: the write, and return True
bounded_put_enq_write(p) ==
    /\ tr_pc[p] = "enq_write"
    /\ trace_enqueued_count' = tr_tmp[p] + 1
    /\ tr_pc' = [tr_pc EXCEPT ![p] = "idle"]
    /\ UNCHANGED <<trace_queue, trace_dropped_count, tr_item, tr_tmp,
                   tr_next, tr_full_calls, tr_lost, tr_consumed>>
    /\ TraceRest

\* FileWriterThread takes the oldest entry of trace_queue
writer_get ==
    /\ trace_queue # <<>>
    /\ trace_queue' = Tail(trace_queue)
    /\ tr_consumed' = tr_consumed + 1
    /\ UNCHANGED <<trace_enqueued_count, trace_dropped_count, tr_pc, tr_item,
                   tr_tmp, tr_next, tr_full_calls, tr_lost>>
    /\ TraceRest

TraceNext ==
    \/ \E p \in Producers : trace_put(p)
    \/ \E p \in Producers : bounded_put_evict(p)
    \/ \E p \in Producers : bounded_put_drop_read(p)
    \/ \E p \in Producers : bounded_put_drop_write(p)
    \/ \E p \in Producers : bounded_put_again(p)
    \/ \E p \in Producers : bounded_put_enq_read(p)
    \/ \E p \in Producers : bounded_put_enq_write(p)
    \/ writer_get

(***************************************************************************)
(* DLC padding (COMMON/Cast.py)                                            *)
(***************************************************************************)
\* longest input, the fill bytes and the payload bytes tried
MaxPadLen == 66
PadFills == {0, 170}
PadBytes == {0, 255}

Data_size == <<12, 16, 20, 24, 36, 48, 64>>

\* the loop of lines 107-109, from index i on
RECURSIVE first_size(_, _)
first_size(arr_len, i) ==
    IF arr_len <= Data_size[i] THEN Data_size[i]
    ELSE first_size(arr_len, i + 1)

calculateLength_dlc(arr_len) ==
    IF arr_len > 64 THEN 255
    ELSE IF arr_len <= 8 THEN arr_len
    ELSE first_size(arr_len, 1)

add_padding(input_arr, padding) ==
    input_arr \o [i \in 1..(calculateLength_dlc(Len(input_arr)) - Len(input_arr))
                    |-> padding]

\* no add_padding call
PadIdle ==
    /\ pad_in = <<>>
    /\ pad_fill = 0
    /\ pad_out = <<>>

\* the inputs: payloads of every length whose bytes differ from the fill
\* byte or not, numbered so that a reordering shows
PadInit ==
    /\ \E n \in 0..MaxPadLen, b \in PadBytes :
         pad_in = [i \in 1..n |-> (b + i) % 256]
    /\ pad_fill \in PadFills
    /\ pad_out = <<>>

pad_call ==
    /\ pad_out = <<>>
    /\ pad_out' = <<add_padding(pad_in, pad_fill)>>
    /\ UNCHANGED <<pad_in, pad_fill>>
    /\ UNCHANGED <<readerVars, schedVars, tpVars, dbcVars, diagVars,
                   traceVars>>

\* a task has been added; no reader traffic, no session
SchedSpecInit == ReaderInit /\ SchedInit /\ TPIdle /\ DbcIdle /\ DiagIdle /\ TraceIdle /\ PadIdle

SchedSpec == SchedSpecInit /\ [][SchedNext]_vars

\* session A (ECU id 1, tester id 3) is about to send 20 bytes, a First
\* Frame and two Consecutive Frames; the ECU answers with flow control
\* frames of its choice
FcInit ==
    /\ tp_D = Data(20, 1)
    /\ ecu_id = [s \in Sessions |-> IF s = "A" THEN 1 ELSE 2]
    /\ tester_id = [s \in Sessions |-> 3]
    /\ session_of = [s \in Sessions |-> s]
    /\ bus_rx = <<>>
    /\ tp_subs = [i \in 0..3 |-> IF i = 3 THEN <<"A">> ELSE <<>>]
    /\ opened = {"A"}
    /\ closed = [s \in Sessions |-> FALSE]
    /\ rx_buffer = [s \in Sessions |-> <<>>]
    /\ rx_flow_control = [s \in Sessions |-> default_rx_flow_control]
    /\ tx_pc = [s \in Sessions |-> IF s = "A" THEN "idle" ELSE "off"]
    /\ tx_remain = [s \in Sessions |-> <<>>]
    /\ tx_sn = [s \in Sessions |-> 0]
    /\ tx_block_size = [s \in Sessions |-> 0]
    /\ tx_frames_in_block = [s \in Sessions |-> 0]
    /\ tx_result = [s \in Sessions |-> FALSE]
    /\ rx_pc = [s \in Sessions |-> "off"]
    /\ rx_total = [s \in Sessions |-> 0]
    /\ rx_data = [s \in Sessions |-> <<>>]
    /\ rx_result = [s \in Sessions |-> <<>>]
    /\ nfed = [s \in Sessions |-> 0]
    /\ npopped = [s \in Sessions |-> 0]
    /\ tx_log = [s \in Sessions |-> <<>>]
    /\ tp_now = 0
    /\ fc_start = [s \in Sessions |-> 0]
    /\ fc_began = [s \in Sessions |-> 0]
    /\ tx_st_min = [s \in Sessions |-> 0]
    /\ n_env = 0

\* a PDU of more than sixteen Consecutive Frames: the longest payload sent
\* and the block size the ECU may ask for
MaxSnLen == 125
SnBlock == 5
SnLens == {20, 118, MaxSnLen}

\* the ECU answers a waiting sender with a CTS frame, BS 0 or SnBlock
EcuCts ==
    /\ tx_pc["A"] \in {"wait_fc", "wait_fc_block"}
    /\ rx_buffer["A"] = <<>>
    /\ \A i \in 1..Len(bus_rx) : bus_rx[i].id # 3
    /\ \E bs \in {0, SnBlock} :
         bus_rx' = Append(bus_rx, [id |-> 3,
                                   data |-> <<48, bs, 0, 0, 0, 0, 0, 0>>])
    /\ UNCHANGED <<tpConfig, tp_subs, opened, closed, rx_buffer, tx_pc,
                   tx_remain, tx_sn, tx_block_size, tx_frames_in_block,
                   tx_result, rx_pc, rx_total, rx_data, rx_result, nfed,
                   npopped, n_env>>
    /\ UNCHANGED <<tx_log, fcVars, readerVars, schedVars, dbcVars, diagVars, traceVars, padVars>>

\* session A (ECU id 1, tester id 3) is about to send a long PDU
SnInit ==
    /\ tp_D \in {Data(n, f) : n \in SnLens, f \in Fills}
    /\ ecu_id = [s \in Sessions |-> IF s = "A" THEN 1 ELSE 2]
    /\ tester_id = [s \in Sessions |-> 3]
    /\ session_of = [s \in Sessions |-> s]
    /\ bus_rx = <<>>
    /\ tp_subs = [i \in 0..3 |-> IF i = 3 THEN <<"A">> ELSE <<>>]
    /\ opened = {"A"}
    /\ closed = [s \in Sessions |-> FALSE]
    /\ rx_buffer = [s \in Sessions |-> <<>>]
    /\ rx_flow_control = [s \in Sessions |-> default_rx_flow_control]
    /\ tx_pc = [s \in Sessions |-> IF s = "A" THEN "idle" ELSE "off"]
    /\ tx_remain = [s \in Sessions |-> <<>>]
    /\ tx_sn = [s \in Sessions |-> 0]
    /\ tx_block_size = [s \in Sessions |-> 0]
    /\ tx_frames_in_block = [s \in Sessions |-> 0]
    /\ tx_result = [s \in Sessions |-> FALSE]
    /\ rx_pc = [s \in Sessions |-> "off"]
    /\ rx_total = [s \in Sessions |-> 0]
    /\ rx_data = [s \in Sessions |-> <<>>]
    /\ rx_result = [s \in Sessions |-> <<>>]
    /\ nfed = [s \in Sessions |-> 0]
    /\ npopped = [s \in Sessions |-> 0]
    /\ tx_log = [s \in Sessions |-> <<>>]
    /\ tp_now = 0
    /\ fc_start = [s \in Sessions |-> 0]
    /\ fc_began = [s \in Sessions |-> 0]
    /\ tx_st_min = [s \in Sessions |-> 0]
    /\ n_env = 0

SnNext ==
    \/ EcuCts
    \/ TPDeliver
    \/ send_start("A")
    \/ send_fc("A")
    \/ send_cf("A")

\* frames of the ECU for a receiving session: a First Frame announcing 20
\* bytes, Consecutive Frames numbered 1, 2 and 5, a flow control frame and a
\* Single Frame; the number of frames the ECU sends
MaxRxFrames == 4
RxFrames == { <<16, 20, 1, 2, 3, 4, 5, 6>>,
              <<33, 7, 8, 9, 10, 11, 12, 13>>,
              <<34, 14, 15, 16, 17, 18, 19, 20>>,
              <<37, 81, 82, 83, 84, 85, 86, 87>>,
              <<48, 0, 0, 0, 0, 0, 0, 0>>,
              <<2, 10, 11, 0, 0, 0, 0, 0>> }

\* the ECU side puts one of these frames on the bus
RxEnvFrame ==
    /\ n_env < MaxRxFrames
    /\ n_env' = n_env + 1
    /\ \E f \in RxFrames : bus_rx' = Append(bus_rx, [id |-> 3, data |-> f])
    /\ UNCHANGED <<tpConfig, tp_subs, opened, closed, rx_buffer, tx_pc,
                   tx_remain, tx_sn, tx_block_size, tx_frames_in_block,
                   tx_result, rx_pc, rx_total, rx_data, rx_result, nfed,
                   npopped>>
    /\ UNCHANGED <<tx_log, fcVars, readerVars, schedVars, dbcVars, diagVars, traceVars, padVars>>

\* session A (ECU id 1, tester id 3) is about to receive
RxInit ==
    /\ tp_D = <<>>
    /\ ecu_id = [s \in Sessions |-> IF s = "A" THEN 1 ELSE 2]
    /\ tester_id = [s \in Sessions |-> 3]
    /\ session_of = [s \in Sessions |-> s]
    /\ bus_rx = <<>>
    /\ tp_subs = [i \in 0..3 |-> IF i = 3 THEN <<"A">> ELSE <<>>]
    /\ opened = {"A"}
    /\ closed = [s \in Sessions |-> FALSE]
    /\ rx_buffer = [s \in Sessions |-> <<>>]
    /\ rx_flow_control = [s \in Sessions |-> default_rx_flow_control]
    /\ tx_pc = [s \in Sessions |-> "off"]
    /\ tx_remain = [s \in Sessions |-> <<>>]
    /\ tx_sn = [s \in Sessions |-> 0]
    /\ tx_block_size = [s \in Sessions |-> 0]
    /\ tx_frames_in_block = [s \in Sessions |-> 0]
    /\ tx_result = [s \in Sessions |-> FALSE]
    /\ rx_pc = [s \in Sessions |-> IF s = "A" THEN "idle" ELSE "off"]
    /\ rx_total = [s \in Sessions |-> 0]
    /\ rx_data = [s \in Sessions |-> <<>>]
    /\ rx_result = [s \in Sessions |-> <<>>]
    /\ nfed = [s \in Sessions |-> 0]
    /\ npopped = [s \in Sessions |-> 0]
    /\ tx_log = [s \in Sessions |-> <<>>]
    /\ tp_now = 0
    /\ fc_start = [s \in Sessions |-> 0]
    /\ fc_began = [s \in Sessions |-> 0]
    /\ tx_st_min = [s \in Sessions |-> 0]
    /\ n_env = 0

RxNext ==
    \/ RxEnvFrame
    \/ TPDeliver
    \/ receive_start("A")
    \/ receive_first("A")
    \/ receive_cf("A")
    \/ receive_timeout("A")

\* two callers on one session object (ECU id 1, tester id 3): both call
\* send with the same data, or both call receive while the ECU sends two
\* PDUs one after the other
MaxConcEnv == 3
ConcLens == {5, 10, 20}
ConcFcFrames == { <<48, 0, 0, 0, 0, 0, 0, 0>>, <<48, 1, 0, 0, 0, 0, 0, 0>> }
EcuPdus == << <<16, 20, 1, 2, 3, 4, 5, 6>>,
              <<33, 7, 8, 9, 10, 11, 12, 13>>,
              <<34, 14, 15, 16, 17, 18, 19, 20>>,
              <<16, 13, 101, 102, 103, 104, 105, 106>>,
              <<33, 107, 108, 109, 110, 111, 112, 113>> >>

ConcInit ==
    /\ \/ /\ tp_D \in {Data(n, 1) : n \in ConcLens}
          /\ tx_pc = [s \in Sessions |-> "idle"]
          /\ rx_pc = [s \in Sessions |-> "off"]
       \/ /\ tp_D = <<>>
          /\ tx_pc = [s \in Sessions |-> "off"]
          /\ rx_pc = [s \in Sessions |-> "idle"]
    /\ ecu_id = [s \in Sessions |-> 1]
    /\ tester_id = [s \in Sessions |-> 3]
    /\ session_of = [s \in Sessions |-> "A"]
    /\ bus_rx = <<>>
    /\ tp_subs = [i \in 0..3 |-> IF i = 3 THEN <<"A">> ELSE <<>>]
    /\ opened = {"A"}
    /\ closed = [s \in Sessions |-> FALSE]
    /\ rx_buffer = [s \in Sessions |-> <<>>]
    /\ rx_flow_control = [s \in Sessions |-> default_rx_flow_control]
    /\ tx_remain = [s \in Sessions |-> <<>>]
    /\ tx_sn = [s \in Sessions |-> 0]
    /\ tx_block_size = [s \in Sessions |-> 0]
    /\ tx_frames_in_block = [s \in Sessions |-> 0]
    /\ tx_result = [s \in Sessions |-> FALSE]
    /\ rx_total = [s \in Sessions |-> 0]
    /\ rx_data = [s \in Sessions |-> <<>>]
    /\ rx_result = [s \in Sessions |-> <<>>]
    /\ nfed = [s \in Sessions |-> 0]
    /\ npopped = [s \in Sessions |-> 0]
    /\ tx_log = [s \in Sessions |-> <<>>]
    /\ tp_now = 0
    /\ fc_start = [s \in Sessions |-> 0]
    /\ fc_began = [s \in Sessions |-> 0]
    /\ tx_st_min = [s \in Sessions |-> 0]
    /\ n_env = 0

\* the ECU puts a flow control frame for the senders on the bus
ConcEcuFc ==
    /\ tx_pc["A"] # "off"
    /\ n_env < MaxConcEnv
    /\ n_env' = n_env + 1
    /\ \E f \in ConcFcFrames : bus_rx' = Append(bus_rx, [id |-> 3, data |-> f])
    /\ UNCHANGED <<tpConfig, tp_subs, opened, closed, rx_buffer, tx_pc,
                   tx_remain, tx_sn, tx_block_size, tx_frames_in_block,
                   tx_result, rx_pc, rx_total, rx_data, rx_result, nfed,
                   npopped>>
    /\ UNCHANGED <<tx_log, fcVars, readerVars, schedVars, dbcVars, diagVars, traceVars, padVars>>

\* the ECU puts the next frame of its two PDUs on the bus
ConcEcuFrame ==
    /\ rx_pc["A"] # "off"
    /\ n_env < Len(EcuPdus)
    /\ n_env' = n_env + 1
    /\ bus_rx' = Append(bus_rx, [id |-> 3, data |-> EcuPdus[n_env + 1]])
    /\ UNCHANGED <<tpConfig, tp_subs, opened, closed, rx_buffer, tx_pc,
                   tx_remain, tx_sn, tx_block_size, tx_frames_in_block,
                   tx_result, rx_pc, rx_total, rx_data, rx_result, nfed,
                   npopped>>
    /\ UNCHANGED <<tx_log, fcVars, readerVars, schedVars, dbcVars, diagVars, traceVars, padVars>>

ConcNext ==
    \/ ConcEcuFc
    \/ ConcEcuFrame
    \/ TPDeliver
    \/ \E s \in Sessions :
         \/ send_start(s)
         \/ send_fc(s)
         \/ send_fc_timeout(s)
         \/ send_cf(s)
         \/ receive_start(s)
         \/ receive_first(s)
         \/ receive_cf(s)
         \/ receive_timeout(s)

FcNext ==
    \/ EnvFlowControl
    \/ TickMonotonic
    \/ TPDeliver
    \/ send_start("A")
    \/ send_fc("A")
    \/ send_fc_deadline("A")
    \/ send_cf("A")

\* a sender that calls send again after a failure, and an ECU that answers
\* each First Frame once
ReuseNext ==
    \/ EcuAnswer
    \/ TickMonotonic
    \/ TPDeliver
    \/ send_start("A")
    \/ send_fc("A")
    \/ send_fc_deadline("A")
    \/ send_cf("A")
    \/ send_again("A")

FcSpecInit == ReaderInit /\ SchedIdle /\ FcInit /\ DbcIdle /\ DiagIdle /\ TraceIdle /\ PadIdle

ReuseSpec == FcSpecInit /\ [][ReuseNext]_vars

FcSpec == FcSpecInit /\ [][FcNext]_vars

\* two callers sharing one session
ConcSpecInit == ReaderInit /\ SchedIdle /\ ConcInit /\ DbcIdle /\ DiagIdle /\ TraceIdle /\ PadIdle

ConcSpec == ConcSpecInit /\ [][ConcNext]_vars

\* one receive, the ECU sending frames of its choice
RxSpecInit == ReaderInit /\ SchedIdle /\ RxInit /\ DbcIdle /\ DiagIdle /\ TraceIdle /\ PadIdle

RxSpec == RxSpecInit /\ [][RxNext]_vars

\* a long PDU sent in blocks
SnSpecInit == ReaderInit /\ SchedIdle /\ SnInit /\ DbcIdle /\ DiagIdle /\ TraceIdle /\ PadIdle

SnSpec == SnSpecInit /\ [][SnNext]_vars

SchedStopSpec == SchedSpecInit /\ [][SchedStopNext]_vars

\* the same task behind the scheduler's methods; the task thread is
\* scheduled again and again, and a caller inside stop_all() or stop() is
\* too
SchedFairSpec ==
    SchedSpecInit /\ [][SchedApiNext]_vars
      /\ WF_vars(ThreadStep) /\ WF_vars(StopStep)

\* a sending and a receiving session; no reader traffic, no task
TPSpecInit == ReaderInit /\ SchedIdle /\ TPInit /\ DbcIdle /\ DiagIdle /\ TraceIdle /\ PadIdle

TPSpec == TPSpecInit /\ [][TPNext]_vars

\* two sessions to be opened on one tester id; no reader traffic, no task
SessSpecInit == ReaderInit /\ SchedIdle /\ SessInit /\ DbcIdle /\ DiagIdle /\ TraceIdle /\ PadIdle

SessSpec == SessSpecInit /\ [][SessNext]_vars

\* the same sessions, closed more than once
CloseNext ==
    \/ SessNext
    \/ \E s \in Sessions : close_again(s)

CloseSpec == SessSpecInit /\ [][CloseNext]_vars

Init == ReaderInit /\ SchedIdle /\ TPIdle /\ DbcIdle /\ DiagIdle /\ TraceIdle /\ PadIdle

Spec == Init /\ [][ReaderNext]_vars

\* the reader with its lock; the reader thread is scheduled again and again
LockSpec == Init /\ [][LockNext]_vars /\ WF_vars(ReaderStep)

\* the DBC adapter alone: no reader traffic, no task, no session
DbcSpecInit == ReaderInit /\ SchedIdle /\ TPIdle /\ DbcInit /\ DiagIdle /\ TraceIdle /\ PadIdle

DbcSpec == DbcSpecInit /\ [][DbcNext]_vars

\* the DBC adapter with its alive counter about to wrap
AlvSpecInit == ReaderInit /\ SchedIdle /\ TPIdle /\ AlvInit /\ DiagIdle /\ TraceIdle /\ PadIdle

AlvSpec == AlvSpecInit /\ [][DbcNext]_vars

\* batches pushed to the adapter, and resets
PushSpec == DbcSpecInit /\ [][PushNext]_vars

\* one send_and_received on an idle diagnostic helper
DiagSpecInit == ReaderInit /\ SchedIdle /\ TPIdle /\ DbcIdle /\ DiagIdle /\ TraceIdle /\ PadIdle

DiagSpec == DiagSpecInit /\ [][DiagNext]_vars

\* start_tester_present and stop_tester_present called one after another
KaSpec == DiagSpecInit /\ [][KaNext]_vars

\* the TX hook, the reader's trace hook and the file writer at once
TraceSpec == DiagSpecInit /\ [][TraceNext]_vars

\* add_padding applied to one payload
PadSpecInit ==
    ReaderInit /\ SchedIdle /\ TPIdle /\ DbcIdle /\ DiagIdle /\ TraceIdle /\ PadInit

PadSpec == PadSpecInit /\ [][pad_call]_vars

\* one unlock_security on an idle diagnostic helper
UnlockSpec == DiagSpecInit /\ [][UnlockNext]_vars

(***************************************************************************)
(* Properties of the frame reader (checked under Spec)                     *)
(***************************************************************************)

\* C1 (reader fanout): when run() is back at bus.recv after processing frame
\* rd_msg and no other thread touched the reader since the frame arrived, the
\* frame is exactly once in default_queue, exactly once in id_queues[id],
\* exactly once in every named queue registered under id, and every callback
\* has been invoked with it once per registration on id.
C1_ReaderFanout ==
    (rd_pc = "recv" /\ rd_msg # NoMsg /\ Quiet(lastOp)) =>
        /\ CountIn(rd_msg, default_queue) = 1
        /\ rd_msg.id \in DOMAIN id_queues
        /\ CountIn(rd_msg, id_queues[rd_msg.id]) = 1
        /\ \A nm \in DOMAIN DictGet(named_id_queues, rd_msg.id, EmptyDict) :
              CountIn(rd_msg, named_id_queues[rd_msg.id][nm]) = 1
        /\ \A cb \in Cbs :
              CountIn(cb, invoked) = CountIn(cb, DictGet(callbacks, rd_msg.id, <<>>))

C1_Witness ==
    /\ rd_pc = "recv" /\ rd_msg # NoMsg /\ Quiet(lastOp)
    /\ rd_msg.n = 2
    /\ rd_msg.id \in DOMAIN named_id_queues
    /\ DOMAIN named_id_queues[rd_msg.id] # {}
    /\ Len(invoked) = 2

\* C2 (subscribe freshness): right after subscribe(i, callback, name) with a
\* queue name, get_from_id(i, queue_name=name, pop=False) returns nothing.
C2_SubscribeFreshness ==
    (lastOp.op = "subscribe" /\ lastOp.name # None) =>
        get_from_id_result(lastOp.id, lastOp.name) = NoMsg

\* a re-subscribe on a named queue that still held frames
C2_Witness ==
    /\ lastOp.op = "subscribe"
    /\ lastOp.stale
    /\ lastOp.id \in DOMAIN id_queues
    /\ id_queues[lastOp.id] # <<>>

\* C5 (stale reaping): a reaper pass keeps the per-ID queue and every named
\* queue of a stale subscribed id registered and leaves them empty, drops the
\* queues of a stale id that is not subscribed, and never unregisters a queue
\* of a subscribed id.
C5_StaleReaping ==
    [][cleanup_old_queues =>
        /\ \A i \in StaleIds \cap subscribe_ids :
              /\ i \in subscribe_ids'
              /\ i \in DOMAIN id_queues =>
                    (i \in DOMAIN id_queues' /\ id_queues'[i] = <<>>)
              /\ i \in DOMAIN named_id_queues =>
                    /\ i \in DOMAIN named_id_queues'
                    /\ DOMAIN named_id_queues'[i] = DOMAIN named_id_queues[i]
                    /\ \A nm \in DOMAIN named_id_queues[i] :
                          named_id_queues'[i][nm] = <<>>
        /\ \A i \in StaleIds \ subscribe_ids :
              /\ i \notin DOMAIN id_queues'
              /\ i \notin DOMAIN named_id_queues'
        /\ \A i \in subscribe_ids :
              /\ i \in DOMAIN id_queues => i \in DOMAIN id_queues'
              /\ i \in DOMAIN named_id_queues =>
                    /\ i \in DOMAIN named_id_queues'
                    /\ DOMAIN named_id_queues[i] \subseteq DOMAIN named_id_queues'[i]
    ]_vars

\* the reaper has just cleared a non-empty named queue of a subscribed id
C5_Witness ==
    /\ lastOp.op = "cleanup"
    /\ lastOp.cleared # {}

\* the reaper has just dropped the named queues of an unsubscribed id
C5_WitnessDropped ==
    /\ lastOp.op = "cleanup"
    /\ lastOp.dropped # {}

\* C6 (callback error isolation): run() never stops because a callback
\* raised; every callback of the snapshot is invoked, in registration order,
\* whether or not an earlier one raised, and run() returns to bus.recv.
C6_CallbackIsolation ==
    /\ rd_pc # "dead"
    /\ rd_pc = "cb" => invoked = SubSeq(rd_callbacks, 1, rd_idx - 1)
    /\ (rd_pc = "recv" /\ rd_msg # NoMsg) => invoked = rd_callbacks

\* the second frame has been fanned out: the raising callback was invoked
\* and the one registered after it was invoked all the same
C6_Witness ==
    /\ rd_pc = "recv"
    /\ rd_msg.n = 2
    /\ invoked = <<"cbRaise", "cbOk">>

(***************************************************************************)
(* Claims about MessageTask, checked under SchedSpec                       *)
(***************************************************************************)
\* frames sent by _send_loop
LoopSends == sent.oneshot + sent.burst + sent.periodic

\* C7: a task created with period 0 sends at most one frame from its loop
\* and never a periodic or burst frame; when the loop has left through the
\* one-shot branch exactly one frame was sent; an exited thread has
\* running = False; a stop_message issued after the thread exited adds no
\* frame and its join does not block.
C7_OneShot ==
    /\ period = 0 =>
         /\ sent.oneshot <= 1
         /\ sent.periodic = 0
         /\ sent.burst = 0
         /\ exit_reason = "oneshot" => (sent.oneshot = 1 /\ t_pc = "exit")
         /\ (st_after_exit /\ st_pc # "idle") => LoopSends <= 1
    /\ t_pc = "exit" => ~running
    /\ (st_after_exit /\ st_pc = "join") => t_pc = "exit"

C7_Witness ==
    /\ period = 0
    /\ exit_reason = "oneshot"
    /\ sent.oneshot = 1
    /\ ~running
    /\ st_after_exit
    /\ st_pc = "returned"

\* C8: for a task with period P > 0 on which neither pause nor trigger_burst
\* has been called, next_periodic_time equals its initial value (0, the
\* construction time) plus P times the number of periodic sends, and no
\* periodic frame was sent before next_periodic_time.
C8_Cadence ==
    (period > 0 /\ ~used_pause /\ ~used_burst) =>
        /\ next_periodic_time = sent.periodic * period
        /\ ~early

C8_Witness ==
    /\ period > 0
    /\ ~used_pause
    /\ ~used_burst
    /\ sent.periodic = 2
    /\ next_periodic_time = 2 * period
    /\ perf_counter > period

\* C9: on a periodic task that is not stopped, once the loop is back at its
\* timed wait with no burst pending, the number of burst frames sent equals
\* the sum of the counts of the accepted trigger_burst calls.
C9_BurstBounds ==
    (/\ period > 0
     /\ running
     /\ ~stop_event
     /\ t_pc = "L101"
     /\ ~in_burst_mode
     /\ ~wake_event) => sent.burst = accepted

\* C10: between pause() and resume() the loop sends no frame, apart from at
\* most the one frame it had already released through the gate when pause()
\* was called.
C10_PauseGate == paused_sends <= 1

(***************************************************************************)
(* Claims about CAN-TP sessions                                            *)
(***************************************************************************)
\* C3: with the default flow control settings (CTS, block size 0), when the
\* send of D in session A and the receive in session B have both returned,
\* send returned True and receive returned exactly the bytes of D.
C3_RoundTrip ==
    (/\ rx_flow_control["B"] = default_rx_flow_control
     /\ tx_pc["A"] = "done"
     /\ rx_pc["B"] = "done") =>
        /\ tx_result["A"]
        /\ rx_result["B"] = HexArr2StrArr(tp_D)

\* a step in which a call of session s pops a frame
Pops(s) == npopped'[s] = npopped[s] + 1

C11_StopPriority ==
    (st_pc = "stop") ~> (st_pc = "returned" /\ t_pc = "exit" /\ ~running)

(***************************************************************************)
(* C12. Scheduler stop is idempotent: a call of stop_message(id) for an id *)
(* with no task in the table (a second call for a stopped id, or an id     *)
(* never added), and a call of stop_all() on an empty table, returns,      *)
(* sends no frame and leaves the task table as it was.                     *)
(***************************************************************************)
C12_StopIdempotent ==
    [][noop_stops' = noop_stops + 1 =>
          /\ tasks' = tasks
          /\ sent' = sent
          /\ <<running, stop_event, pause_event, wake_event, t_pc, st_pc>>' =
               <<running, stop_event, pause_event, wake_event, t_pc, st_pc>>
          /\ sa_pc' \in {sa_pc, "idle"}]_vars

\* a task has been stopped; then stop_all() and a second stop call found
\* nothing to stop, and both have returned
C12_Witness ==
    /\ st_pc = "returned"
    /\ noop_stops = MaxStopCalls
    /\ sa_pc = "idle"
    /\ tasks = {}

\* stop_message(OtherId) has returned while the task of MsgId is in the table
C12_WitnessUnknown ==
    /\ noop_stops > 0
    /\ tasks = {MsgId}
    /\ st_pc = "idle"

RECURSIVE Payloads(_)
Payloads(frames) ==
    IF frames = <<>> THEN <<>>
    ELSE Tail(Head(frames).data) \o Payloads(Tail(frames))

\* the bytes a First Frame with a 12 bit length and the Consecutive Frames
\* behind it carry, in the order session A wrote them
CarriedBytes ==
    SubSeq(tx_log["A"][1].data, 3, chunk_length)
      \o Payloads(Tail(tx_log["A"]))

(***************************************************************************)
(* C14. Multi-frame receive: when the first transport frame is a First     *)
(* Frame announcing total_length, receive writes exactly one Flow Control  *)
(* frame, built from the session's rx_flow settings, to the ECU id, and    *)
(* once all Consecutive Frames have arrived it returns exactly the first   *)
(* total_length bytes of the data carried by the First Frame and by the    *)
(* Consecutive Frames in their order of arrival.                           *)
(***************************************************************************)
C14_MultiFrameReceive ==
    (Len(tp_D) > 7 /\ Len(tp_D) <= 4095) =>
        /\ Len(tx_log["B"]) <= 1
        /\ rx_pc["B"] \in {"cf", "done"} =>
             tx_log["B"] =
               << [id |-> ecu_id["B"],
                   data |-> <<48 + rx_flow_control["B"].flow_status,
                              rx_flow_control["B"].block_size,
                              rx_flow_control["B"].st_min, 0, 0, 0, 0, 0>>] >>
        /\ (rx_pc["B"] = "done" /\ tx_pc["A"] = "done" /\ tx_result["A"]) =>
             rx_result["B"] =
               HexArr2StrArr(SubSeq(CarriedBytes, 1, Len(tp_D)))

\* the flow status nibble of the flow control frame a waiting sender s takes
\* next from its buffer
NextFS(s) ==
    IntOf(rx_buffer[s][FirstMatch(s, "_is_flow_control_frame")][1]) % 16

\* session s waits for the flow control frame that answers its First Frame
AwaitsFirstFC(s) == tx_pc[s] = "wait_fc"

(***************************************************************************)
(* C15. Flow-control status on send.  A flow control frame is taken only   *)
(* before the deadline of the wait it answers, and that deadline is the    *)
(* one set when the wait began: FS=WAIT keeps the sender waiting and does  *)
(* not restart it.  After the First Frame, FS=OVFLW ends the send with     *)
(* false and no Consecutive Frame written, FS=CTS hands its BS and STmin   *)
(* to the sender, which goes on to the Consecutive Frames.  A wait that    *)
(* ends without a frame taken is past its deadline, and the send returns   *)
(* false.                                                                  *)
(***************************************************************************)
C15_FlowStatus ==
    [][/\ (AwaitsFirstFC("A") /\ Pops("A")) =>
             /\ tp_now - fc_began["A"] < flow_control_timeout_ms
             /\ NextFS("A") = 1 =>
                  /\ AwaitsFirstFC("A")'
                  /\ fc_start'["A"] = fc_began["A"]
                  /\ tx_log' = tx_log
             /\ NextFS("A") = 2 =>
                  /\ tx_pc'["A"] = "done"
                  /\ tx_result'["A"] = FALSE
                  /\ Len(tx_log'["A"]) = 1
             /\ NextFS("A") = 0 =>
                  LET fc == rx_buffer["A"][FirstMatch("A",
                                "_is_flow_control_frame")]
                      st == IntOf(fc[3])
                  IN  /\ tx_pc'["A"] = "cf"
                      /\ tx_block_size'["A"] = IntOf(fc[2])
                      /\ tx_st_min'["A"] =
                           IF st <= 127 THEN st * 1000
                           ELSE IF st >= 241 /\ st <= 249
                           THEN (st - 240) * 100 ELSE 0
       /\ (AwaitsFirstFC("A") /\ ~Pops("A") /\ ~AwaitsFirstFC("A")') =>
             /\ tp_now - fc_began["A"] >= flow_control_timeout_ms
             /\ tx_pc'["A"] = "done"
             /\ tx_result'["A"] = FALSE
             /\ Len(tx_log'["A"]) = 1]_vars

\* after the First Frame the sender took a frame and is still waiting (the
\* frame was a WAIT), and the deadline of that wait has passed
C15_Witness ==
    /\ tx_pc["A"] = "wait_fc"
    /\ npopped["A"] = 1
    /\ Len(tx_log["A"]) = 1
    /\ tp_now - fc_began["A"] >= flow_control_timeout_ms

\* session s waits for the flow control frame that opens its next block
AwaitsBlockFC(s) == tx_pc[s] = "wait_fc_block"

\* a step in which session s writes a Consecutive Frame
WritesCF(s) == tx_pc[s] = "cf" /\ Len(tx_log'[s]) = Len(tx_log[s]) + 1

(***************************************************************************)
(* C16. Block-size window.  With BS # 0 a Consecutive Frame is written     *)
(* only while fewer than BS frames have been written since the last flow   *)
(* control frame; after the BS-th frame, with data remaining, the sender   *)
(* waits for the next flow control frame.  If that frame is not CTS, WAIT  *)
(* included, the send ends with false; if it is CTS the block counter is   *)
(* reset and the new BS and STmin are adopted.  With BS = 0 the sender     *)
(* never waits for a further flow control frame.                           *)
(***************************************************************************)
C16_BlockWindow ==
    [][/\ WritesCF("A") =>
             /\ tx_block_size["A"] # 0 =>
                  tx_frames_in_block["A"] < tx_block_size["A"]
             /\ (/\ tx_block_size["A"] # 0
                 /\ tx_frames_in_block'["A"] = tx_block_size["A"]
                 /\ tx_remain'["A"] # <<>>) => AwaitsBlockFC("A")'
             /\ tx_block_size["A"] = 0 => ~AwaitsBlockFC("A")'
       /\ (AwaitsBlockFC("A") /\ Pops("A")) =>
             IF NextFS("A") # 0
             THEN /\ tx_pc'["A"] = "done"
                  /\ tx_result'["A"] = FALSE
                  /\ tx_log' = tx_log
             ELSE LET fc == rx_buffer["A"][FirstMatch("A",
                                "_is_flow_control_frame")]
                      st == IntOf(fc[3])
                  IN  /\ tx_pc'["A"] = "cf"
                      /\ tx_frames_in_block'["A"] = 0
                      /\ tx_block_size'["A"] = IntOf(fc[2])
                      /\ tx_st_min'["A"] =
                           IF st <= 127 THEN st * 1000
                           ELSE IF st >= 241 /\ st <= 249
                           THEN (st - 240) * 100 ELSE 0]_vars

(***************************************************************************)
(* C17. A session remains reusable after a protocol failure: after a send  *)
(* that returned false the next send behaves as on a fresh session and     *)
(* does not act on a flow control frame left over from the failed          *)
(* exchange; so a send returns true only after the ECU has answered its    *)
(* own First Frame.                                                        *)
(***************************************************************************)
C17_ReusableAfterFailure ==
    (tx_pc["A"] = "done" /\ tx_result["A"]) => n_env >= NumFF("A")

(***************************************************************************)
(* Claims about the DBC adapter, checked under DbcSpec                     *)
(***************************************************************************)
\* get_payload returns
GetPayloadReturns == gp_pc = "crc" /\ gp_pc' = "idle"

InBounds(s, value) ==
    /\ message_trim[s].minimum # <<>> => value >= message_trim[s].minimum[1]
    /\ message_trim[s].maximum # <<>> => value <= message_trim[s].maximum[1]

(***************************************************************************)
(* C18. Signal clamp: a get_payload that follows push_signals(m, {s: v})   *)
(* returns bytes in which s has the value clamp(v, s.minimum, s.maximum),  *)
(* a missing bound not constraining; and at all times every value stored   *)
(* in current_signals[m] is within the bounds defined for its signal.      *)
(***************************************************************************)
C18_SignalClamp ==
    /\ [](\A s \in SigNames : InBounds(s, current_signals[s]))
    /\ [][(GetPayloadReturns /\ gp_push # <<>>) =>
            LET s == gp_push[1].signal
            IN  Decoded(gp_payload', s) =
                  trim(gp_push[1].value, message_trim[s].minimum,
                       message_trim[s].maximum)]_vars

(***************************************************************************)
(* C19. DBC reset: once reset_message(m) has run, and as long as no        *)
(* push_signals or get_payload has begun after it, current_signals[m] is   *)
(* initial[m] and the pending FIFO is empty, also when a get_payload that  *)
(* began before the reset finishes after it; and a get_payload that begins *)
(* right after the reset returns the bytes of a fresh adapter.             *)
(***************************************************************************)
FreshPayload ==
    LET first == IF on_event THEN initial
                 ELSE [initial EXCEPT !["AlvCnt"] = (@ + 1) % 256]
    IN  encode([first EXCEPT
                  !["Crc"] = crc_calculate_cy(frame_id, encode(first))])

C19_DbcReset ==
    /\ [](reset_clean => current_signals = initial /\ signal_queues = <<>>)
    /\ [][(GetPayloadReturns /\ gp_clean) => gp_payload' = FreshPayload]_vars

(***************************************************************************)
(* C20. CRC determinism: when two successive get_payload calls for the     *)
(* CRC-bearing message both begin after the last push_signals or reset,    *)
(* the second returns the same bytes as the first.                         *)
(***************************************************************************)
C20_CrcDeterminism_AsStated ==
    [][(GetPayloadReturns /\ quiet = 2) => gp_payload' = gp_payload]_vars

\* C20 as it holds: the same, for a message that is event-triggered, so
\* that its alive counter is refreshed only by a call that consumes a
\* pending update
C20_CrcDeterminism ==
    [][(GetPayloadReturns /\ quiet = 2 /\ on_event) =>
         gp_payload' = gp_payload]_vars

\* two calls after a push to an event-triggered message have returned
C20_Witness ==
    /\ on_event
    /\ quiet = 2
    /\ gp_pc = "idle"
    /\ last_push # <<>>
    /\ Decoded(gp_payload, "AlvCnt") = initial["AlvCnt"] + 1
    /\ current_signals["Crc"] = Decoded(gp_payload, "Crc")

(***************************************************************************)
(* C21. push_signals error handling: a push_signals for a message name the *)
(* database does not have ends with a KeyError and leaves the signal state *)
(* and the pending FIFO as they were; for a known message, a signal of the *)
(* batch with an unknown name or a non-numeric value is skipped (not       *)
(* stored, not in the pending record) and every other signal of the batch  *)
(* is stored clamped and is in the pending record.                         *)
(***************************************************************************)
Skipped(signals, k) == k \notin SigNames \/ signals[k] = NonNumeric

C21_PushErrorHandling ==
    [][last_call' # last_call =>
        LET call == last_call'
            signals == call.signals
        IN  IF call.message_name \notin KnownMessages
            THEN /\ call.raised = "KeyError"
                 /\ current_signals' = current_signals
                 /\ signal_queues' = signal_queues
            ELSE /\ call.raised = "no"
                 /\ Len(signal_queues') = 1
                 /\ DOMAIN current_signals' = SigNames
                 /\ \A k \in SigNames \ DOMAIN signals :
                      current_signals'[k] = current_signals[k]
                 /\ \A k \in DOMAIN signals :
                      IF Skipped(signals, k)
                      THEN /\ k \notin DOMAIN signal_queues'[1]
                           /\ k \in SigNames =>
                                current_signals'[k] = current_signals[k]
                      ELSE LET v == trim(signals[k], message_trim[k].minimum,
                                         message_trim[k].maximum)
                           IN  /\ current_signals'[k] = v
                               /\ k \in DOMAIN signal_queues'[1]
                               /\ signal_queues'[1][k] = v]_vars

(***************************************************************************)
(* Claims about the diagnostic helper, checked under DiagSpec              *)
(***************************************************************************)
\* the responses to the request are pending responses followed by one
\* final response, positive or negative
PendingThenFinal ==
    /\ Len(dg_script) >= 1
    /\ \A i \in 1..(Len(dg_script) - 1) :
         dg_script[i] = Pending(SidByte(dg_req))
    /\ dg_script[Len(dg_script)] \in
         {Positive(SidByte(dg_req)), Negative(SidByte(dg_req))}

FinalResponse == HexArr2StrArr(dg_script[Len(dg_script)])

(***************************************************************************)
(* C22. NRC 0x78 rewait: when the responses to a request are pending       *)
(* responses 7F XX 78 followed by a final response R, send_and_received    *)
(* never returns a pending response, returns nothing but R, and returns R  *)
(* unless a receive ran into its timeout before the next response came.    *)
(***************************************************************************)
C22_Nrc78Rewait ==
    (dg_pc = "done" /\ dg_send /\ PendingThenFinal) =>
        /\ ~IsPendingResponse(dg_result)
        /\ dg_result # <<>> => dg_result = FinalResponse
        /\ ~dg_timed_out => dg_result = FinalResponse

(***************************************************************************)
(* C23. Response matching: send_and_received returns a response only when  *)
(* it answers the request (its SID is the request SID or that SID + 0x40,  *)
(* or it is the negative response 7F SID ..), and it returns without a     *)
(* response only when the overall timeout has expired: a response that     *)
(* does not match does not end the polling.                                *)
(***************************************************************************)
AnswersRequest(recv) ==
    \/ IntOf(recv[1]) \in {SidByte(dg_req), SidByte(dg_req) + 64}
    \/ IntOf(recv[1]) = 127 /\ Len(recv) > 1
         /\ IntOf(recv[2]) = SidByte(dg_req)

C23_ResponseMatching ==
    (dg_pc = "done" /\ dg_send) =>
        /\ dg_result # <<>> => AnswersRequest(dg_result)
        /\ dg_result = <<>> => dg_now - dg_start >= DiagTimeout

(***************************************************************************)
(* C24. Unlock flow: unlock_security issues 27 11 and, only after a        *)
(* positive seed response and a generated key, 27 12 + key, each once and  *)
(* in that order; it ends by returning true or false, never with an        *)
(* exception; it returns true exactly when the seed response was positive, *)
(* a key was generated and the response to 27 12 arrived and is not        *)
(* negative.                                                               *)
(***************************************************************************)
SeedAccepted == ul_seed_recv # <<>> /\ ~NRC_check(ul_seed_recv)

C24_UnlockFlow ==
    /\ ul_sent \in {<<>>, <<SeedRequest>>, <<SeedRequest, KeyRequest>>}
    /\ Len(ul_sent) = 2 => SeedAccepted /\ ul_key = "key"
    /\ ul_pc = "done" =>
         /\ ul_result \in {"True", "False"}
         /\ ul_result = "True" <=>
              /\ SeedAccepted
              /\ ul_key = "key"
              /\ ul_key_recv # <<>>
              /\ ~NRC_check(ul_key_recv)
         /\ (~SeedAccepted \/ ul_key # "key") => ul_sent = <<SeedRequest>>

(***************************************************************************)
(* C25. Tester Present keep-alive: at most one keep-alive loop is alive at *)
(* any time (a start while one is alive starts nothing); a loop sends      *)
(* 3E 80 once per pass and two sends of one loop are at least one interval *)
(* apart; once stop_tester_present has returned, and until the next start, *)
(* the loop thread has terminated and no 3E 80 is sent.                    *)
(***************************************************************************)
AliveLoops == {t \in Threads : ka_pc[t] \in {"check", "send", "sleep"}}

TraceQuiet == \A p \in Producers : tr_pc[p] = "idle"

MostRecent ==
    LET n == tr_next - 1
        k == IF n < TraceCap THEN n ELSE TraceCap
    IN [i \in 1..k |-> n - k + i]

C26_TraceBound ==
    /\ Len(trace_queue) <= TraceCap
    /\ tr_lost = {}
    /\ TraceQuiet => trace_dropped_count = tr_full_calls
    /\ (TraceQuiet /\ tr_consumed = 0) => trace_queue = MostRecent

(***************************************************************************)
(* C27. DLC padding: for every payload of length n with 8 < n <= 64,       *)
(* add_padding yields a payload whose length is the smallest element of    *)
(* {12,16,20,24,32,48,64} that is >= n, whose first n bytes are the input  *)
(* and whose remaining bytes all equal the fill byte.                      *)
(***************************************************************************)
FdSteps == {12, 16, 20, 24, 32, 48, 64}

NextFdStep(n) == CHOOSE d \in FdSteps : d >= n /\ \A e \in FdSteps : e >= n => d <= e

C27_DlcPadding ==
    (pad_out # <<>> /\ Len(pad_in) > 8 /\ Len(pad_in) <= 64) =>
        LET out == pad_out[1]
            n == Len(pad_in)
        IN /\ Len(out) = NextFdStep(n)
           /\ SubSeq(out, 1, n) = pad_in
           /\ \A i \in (n + 1)..Len(out) : out[i] = pad_fill

(***************************************************************************)
(* C28. Double close of a session is a no-op: a close() on a session that  *)
(* is closed already returns and changes nothing, and from the first       *)
(* close() on no incoming frame is appended to the session's RX buffer.    *)
(***************************************************************************)
C28_DoubleClose ==
    [][\A s \in Sessions :
         /\ close_again(s) => tp_subs' = tp_subs
         /\ closed[s] => Len(rx_buffer'[s]) <= Len(rx_buffer[s])]_vars

(***************************************************************************)
(* C29. Consecutive-frame numbering on send: the k-th Consecutive Frame of *)
(* a PDU (k = 1, 2, ...) carries k mod 16 in the low nibble of its first   *)
(* byte and 2 in the high nibble: the numbers start at 1 after the First   *)
(* Frame, wrap from 15 to 0 and go on across block boundaries.             *)
(***************************************************************************)
C29_CfNumbering ==
    (Len(tx_log["A"]) >= 1 /\ tx_log["A"][1].data[1] \div 16 = 1) =>
        \A i \in 2..Len(tx_log["A"]) :
            tx_log["A"][i].data[1] = 32 + ((i - 1) % 16)

\* seventeen Consecutive Frames written in blocks of SnBlock: the sixteenth
\* carries 0, the seventeenth 1
C29_Witness ==
    /\ Len(tx_log["A"]) = 18
    /\ tx_log["A"][17].data[1] = 32
    /\ tx_log["A"][18].data[1] = 33
    /\ tx_block_size["A"] = SnBlock
    /\ tx_result["A"]

(***************************************************************************)
(* C30. Lenient CF acceptance on receive: after a First Frame, whenever    *)
(* receive takes a frame out of the RX buffer it is the earliest frame of  *)
(* PCI type 2 there, whatever its sequence number, its bytes after the     *)
(* first are appended to the data, and every other frame, those of another *)
(* PCI type that arrived earlier included, stays in the buffer in its      *)
(* place.                                                                  *)
(***************************************************************************)
CfIndexes(buf) == {i \in 1..Len(buf) : buf[i][1][1] = 2}

C30_LenientCf ==
    [][(rx_pc["A"] = "cf" /\ Len(rx_buffer'["A"]) < Len(rx_buffer["A"])) =>
          LET buf == rx_buffer["A"]
              cfs == CfIndexes(buf)
          IN  /\ cfs # {}
              /\ \E i \in cfs :
                   /\ \A j \in cfs : i <= j
                   /\ rx_data'["A"] = rx_data["A"] \o Tail(buf[i])
                   /\ rx_buffer'["A"] =
                        SubSeq(buf, 1, i - 1) \o SubSeq(buf, i + 1, Len(buf))]_vars

\* receive has returned 20 bytes made of the frames numbered 5 and 1, in
\* that order, and the flow control frame that arrived before them is still
\* in the buffer
C30_Witness ==
    /\ rx_pc["A"] = "done"
    /\ Len(rx_result["A"]) = 20
    /\ rx_result["A"][7] = HexPair(81)
    /\ rx_result["A"][14] = HexPair(7)
    /\ rx_buffer["A"] # <<>>
    /\ rx_buffer["A"][1][1] = HexPair(48)

(***************************************************************************)
(* C31. Alive counter refresh: get_payload adds exactly 1 modulo 256 to    *)
(* the alive counter on every call when the message is not event-triggered *)
(* and, for an event-triggered message, only on a call that consumes a     *)
(* pending update; every other call leaves the alive counter as it was.    *)
(* Checked under AlvSpec.                                                  *)
(***************************************************************************)
GetPayloadBegins == gp_pc = "idle" /\ gp_pc' = "crc"

C31_AliveCounter ==
    [][/\ GetPayloadBegins =>
           current_signals'["AlvCnt"] =
             IF (~on_event) \/ signal_queues # <<>>
             THEN (current_signals["AlvCnt"] + 1) % 256
             ELSE current_signals["AlvCnt"]
       /\ GetPayloadBegins => signals_snapshot'["AlvCnt"] = current_signals'["AlvCnt"]
       /\ GetPayloadReturns =>
           /\ current_signals'["AlvCnt"] = current_signals["AlvCnt"]
           /\ Decoded(gp_payload', "AlvCnt") = signals_snapshot["AlvCnt"]]_vars

\* a cyclic message's counter has gone from 255 to 0 in a call that has
\* returned
C31_Witness ==
    /\ ~on_event
    /\ gp_pc = "idle"
    /\ gp_payload # <<>>
    /\ Decoded(gp_payload, "AlvCnt") = 0
    /\ current_signals["AlvCnt"] = 0

\* an event-triggered message's counter stayed where it was in a call
\* without pending update
C31_WitnessEvent ==
    /\ on_event
    /\ gp_pc = "idle"
    /\ gp_payload # <<>>
    /\ quiet = 1
    /\ last_push = <<>>
    /\ Decoded(gp_payload, "AlvCnt") = 255

(***************************************************************************)
(* C32. Burst on an exited one-shot: trigger_burst(count, spacing) on a    *)
(* task with period 0 whose loop has exited, and that was neither stopped  *)
(* nor paused, makes the caller send count frames at once (one before any  *)
(* wait, the others a spacing apart as long as no stop comes), does not    *)
(* restart the task thread and leaves running false.  Checked under        *)
(* SchedSpec.                                                              *)
(***************************************************************************)
TriggerOnExited ==
    /\ n_triggers' = n_triggers + 1
    /\ period = 0
    /\ t_pc = "exit"
    /\ ~stop_event
    /\ pause_event

C32_ExitedOneShotBurst ==
    /\ [][TriggerOnExited =>
            /\ bn_pc' = "send"
            /\ bn_i' = 0
            /\ bn_n' \in BurstCounts
            /\ ~running' /\ t_pc' = "exit"
            /\ UNCHANGED <<in_burst_mode, burst_count, wake_event>>
            /\ sent' = sent]_vars
    \* the frames of the first such call, counted while it runs
    /\ []((n_triggers = 1 /\ bn_n > 0) =>
            /\ ~running /\ t_pc = "exit"
            /\ sent.burst = 0
            /\ bn_pc = "send" => sent.now = bn_i
            /\ bn_pc = "wait" => sent.now = bn_i + 1
            /\ (bn_pc = "idle" /\ ~stop_event) => sent.now = bn_n)

\* two frames were asked of an exited one-shot task and the caller has sent
\* both; the loop had sent its single frame before
C32_Witness ==
    /\ period = 0
    /\ exit_reason = "oneshot"
    /\ n_triggers = 1
    /\ bn_n = 2
    /\ bn_pc = "idle"
    /\ sent.now = 2
    /\ sent.oneshot = 1
    /\ ~running
    /\ ~stop_event

(***************************************************************************)
(* C33. TX and RX serialization per session: two concurrent send calls on  *)
(* one session never interleave their frames (a send writes a frame only   *)
(* while no other send of the session is between its first frame and its   *)
(* return), and two concurrent receive calls on one session never split    *)
(* the frames of one PDU between them (a receive takes a frame only while  *)
(* no other receive of the session is under way, and what a receive        *)
(* returns is one whole PDU of the ECU or nothing).  Checked under         *)
(* ConcSpec.                                                               *)
(***************************************************************************)
InsideSend(o) == tx_pc[o] \in {"wait_fc", "cf", "wait_fc_block"}
InsideReceive(o) == rx_pc[o] \in {"first", "cf"}
SendWrites(c) == tx_pc[c] # "off" /\ tx_log'[c] # tx_log[c]
ReceivePops(c) == rx_pc[c] # "off" /\ npopped'[c] # npopped[c]
Pdu1 == HexArr2StrArr(Data(20, 1))
Pdu2 == HexArr2StrArr(Data(13, 101))

C33_Serialization ==
    /\ [][\A c \in Sessions :
            /\ SendWrites(c) =>
                 \A o \in Sessions \ {c} : ~InsideSend(o)
            /\ ReceivePops(c) =>
                 \A o \in Sessions \ {c} : ~InsideReceive(o)]_vars
    /\ [](\A c \in Sessions : rx_result[c] \in {<<>>, Pdu1, Pdu2})
    /\ [](\A c \in Sessions :
            (tx_pc[c] = "done" /\ tx_result[c]) =>
               Len(tx_log[c]) = IF Len(tp_D) <= 7 THEN 1
                                ELSE 1 + CeilDiv(Len(tp_D) - 6, 7))

\* both receive calls have returned, one with the first PDU and the other
\* with the second
C33_Witness ==
    /\ rx_pc = [s \in Sessions |-> "done"]
    /\ rx_result["A"] = Pdu2
    /\ rx_result["B"] = Pdu1

\* both send calls have returned True after a First Frame and two
\* Consecutive Frames each
C33_WitnessTx ==
    /\ tx_pc = [s \in Sessions |-> "done"]
    /\ tx_result["A"] /\ tx_result["B"]
    /\ Len(tx_log["A"]) = 3
    /\ Len(tx_log["B"]) = 3

(***************************************************************************)
(* C34. No deadlock between reader and subscription: the reader holds its  *)
(* lock neither while pushing to default_queue nor while invoking          *)
(* callbacks, so that a callback that itself calls subscribe, unsubscribe  *)
(* or get_from_id on the reader, or a thread calling them while a callback *)
(* runs, always completes (the reader gets back to bus.recv with the lock  *)
(* free); and the callbacks invoked for a frame are the snapshot taken     *)
(* under the lock when the frame was stored.  Checked under LockSpec.      *)
(***************************************************************************)
ReaderBusy == rd_lock # "free" \/ rd_pc # "recv"

C34_NoReaderDeadlock ==
    /\ [](rd_pc \in {"put", "cb"} => rd_lock = "free")
    /\ [](ReaderBusy => <>(~ReaderBusy))
    /\ [][/\ (rd_lock = "run" /\ rd_pc' = "put") =>
               rd_callbacks' = SnapshotCallbacks(rd_msg'.id)
          /\ rd_pc \in {"put", "cb"} => rd_callbacks' = rd_callbacks
          /\ (rd_pc \in {"put", "cb"} /\ rd_pc' = "recv") =>
               invoked' = rd_callbacks]_vars

\* the first callback of a frame has unsubscribed the id, the second one
\* was invoked all the same, and run() is back at bus.recv
C34_Witness ==
    /\ rd_pc = "recv"
    /\ rd_lock = "free"
    /\ invoked = <<"cbUnsubscribe", "cbGet">>
    /\ rd_msg.id \notin DOMAIN callbacks
    /\ rd_msg.id \notin subscribe_ids

(***************************************************************************)
(* C35. Closing one session does not disturb another: with two sessions    *)
(* open on the same tester id (different ECU ids), closing one of them     *)
(* leaves the other session's callback registered with the reader, and a   *)
(* frame that arrives afterwards on the tester id is still appended to the *)
(* open session's RX buffer.  Checked under SessSpec.                      *)
(***************************************************************************)
IsOpen(s) == s \in opened /\ ~closed[s]

C35_CloseIsolation ==
    /\ [](\A s \in Sessions : IsOpen(s) => s \in Fed(tp_subs[tester_id[s]]))
    /\ [][\A s \in Sessions :
            (/\ IsOpen(s)
             /\ bus_rx # <<>>
             /\ bus_rx' = Tail(bus_rx)
             /\ Head(bus_rx).id = tester_id[s]) =>
                rx_buffer'[s] =
                  Append(rx_buffer[s], HexArr2StrArr(Head(bus_rx).data))]_vars

(***************************************************************************)
(* The reader with two named queues on one id: subscribe(i, cbA, 'A') and  *)
(* subscribe(i, cbB, 'B'), unsubscribe(i, name), frames, the reaper.       *)
(***************************************************************************)
QNames == {"A", "B"}
CbOf(nm) == IF nm = "A" THEN "cbA" ELSE "cbB"

NamedNext ==
    \/ /\ \E i \in Ids, nm \in QNames : subscribe(i, CbOf(nm), nm)
       /\ UNCHANGED lockVars
    \/ /\ \E i \in Ids, nm \in QNames : unsubscribe(i, nm)
       /\ UNCHANGED lockVars
    \/ /\ \E i \in Ids, nm \in QNames : get_from_id(i, nm)
       /\ UNCHANGED lockVars
    \/ cleanup_old_queues /\ UNCHANGED lockVars
    \/ Tick /\ UNCHANGED lockVars
    \/ RecvFromEnv /\ UNCHANGED lockVars
    \/ Put /\ UNCHANGED lockVars
    \/ InvokeCallback /\ UNCHANGED lockVars

NamedSpec == Init /\ [][NamedNext]_vars

\* queue nm of id i is registered
Registered(i, nm) ==
    i \in DOMAIN named_id_queues /\ nm \in DOMAIN named_id_queues[i]

(***************************************************************************)
(* C36. Unsubscribing one named queue leaves the other subscribers of the  *)
(* same id intact: with queues 'A' (cbA) and 'B' (cbB) subscribed on id i, *)
(* unsubscribe(i, 'A') removes only queue 'A'; queue 'B' stays registered, *)
(* cbB stays in the callback list of i, i stays in subscribe_ids, and a    *)
(* reaper pass clears a registered named queue without dropping it.        *)
(* Checked under NamedSpec.                                                *)
(***************************************************************************)
C36_UnsubscribeNamed ==
    /\ [][\A i \in Ids, nm \in QNames, other \in QNames :
            (/\ unsubscribe(i, nm)
             /\ other # nm
             /\ Registered(i, nm)
             /\ Registered(i, other)
             /\ i \in subscribe_ids
             /\ CountIn(CbOf(other), DictGet(callbacks, i, <<>>)) > 0) =>
                /\ ~Registered(i, nm)'
                /\ Registered(i, other)'
                /\ named_id_queues'[i][other] = named_id_queues[i][other]
                /\ CountIn(CbOf(other), DictGet(callbacks', i, <<>>)) > 0
                /\ i \in subscribe_ids']_vars
    /\ [][\A i \in Ids, nm \in QNames :
            (cleanup_old_queues /\ Registered(i, nm)) =>
                Registered(i, nm)' /\ named_id_queues'[i][nm] = <<>>]_vars

(***************************************************************************)
(* A sender that calls send again after a failure, and an ECU whose flow   *)
(* control frames (CTS, BS 0, STmin 20 ms) carry in their last byte, which *)
(* the session never reads, the number of First Frames the session had     *)
(* written when the frame arrived.                                         *)
(***************************************************************************)
EcuStampedAnswer ==
    /\ n_env < NumFF("A")
    /\ n_env' = n_env + 1
    /\ bus_rx' = Append(bus_rx, [id |-> 3,
                                  data |-> <<48, 0, 20, 0, 0, 0, 0, NumFF("A")>>])
    /\ UNCHANGED <<tpConfig, tp_subs, opened, closed, rx_buffer, tx_pc,
                   tx_remain, tx_sn, tx_block_size, tx_frames_in_block,
                   tx_result, rx_pc, rx_total, rx_data, rx_result, nfed,
                   npopped>>
    /\ UNCHANGED <<tx_log, fcVars, readerVars, schedVars, dbcVars, diagVars, traceVars, padVars>>

FreshNext ==
    \/ EcuStampedAnswer
    \/ TickMonotonic
    \/ TPDeliver
    \/ send_start("A")
    \/ send_fc("A")
    \/ send_fc_deadline("A")
    \/ send_cf("A")
    \/ send_again("A")

FreshSpec == FcSpecInit /\ [][FreshNext]_vars

\* the number of First Frames written when the flow control frame that
\* session s is about to pop arrived
StampOfNextFC(s) ==
    IntOf(rx_buffer[s][FirstMatch(s, "_is_flow_control_frame")][8])

(***************************************************************************)
(* C37. Flow control freshness: the flow control frame a multi-frame send  *)
(* acts on arrived after that send wrote its First Frame; a flow control   *)
(* frame left in the RX buffer by an earlier exchange (one that arrived    *)
(* after an earlier send had timed out) is never taken as the answer to a  *)
(* later send.  Checked under FreshSpec.                                   *)
(***************************************************************************)
C37_FcFreshness ==
    [][(AwaitsFirstFC("A") /\ Pops("A")) =>
          StampOfNextFC("A") = NumFF("A")]_vars

\* the signals get_payload does not compute itself
PlainSignals == SigNames \ {"AlvCnt", "Crc"}

\* what a push of value to signal leaves in current_signals
Clamped(signal, value) ==
    trim(value, message_trim[signal].minimum, message_trim[signal].maximum)

\* a push sets its own signal and leaves the others
PushStep ==
    \A signal \in SigNames, value \in PushValues :
       push_signals(signal, value) =>
         \A s \in SigNames :
            current_signals'[s] =
              IF s = signal THEN Clamped(signal, value)
              ELSE current_signals[s]

\* get_payload leaves and returns what the pushes stored: the signals it
\* does not compute keep their values, and the signal of the last push,
\* when it is one of the set sigs, holds the clamped value pushed
GetPayloadKeeps(sigs) ==
    /\ GetPayloadBegins =>
          /\ \A s \in PlainSignals :
                /\ current_signals'[s] = current_signals[s]
                /\ signals_snapshot'[s] = current_signals[s]
          /\ (last_push # <<>> /\ last_push[1].signal \in sigs) =>
                current_signals'[last_push[1].signal] =
                  Clamped(last_push[1].signal, last_push[1].value)
    /\ GetPayloadReturns =>
          /\ \A s \in PlainSignals :
                /\ current_signals'[s] = current_signals[s]
                /\ Decoded(gp_payload', s) = signals_snapshot[s] % 256
          /\ (gp_push # <<>> /\ gp_push[1].signal \in sigs) =>
                Decoded(gp_payload', gp_push[1].signal) =
                  Clamped(gp_push[1].signal, gp_push[1].value) % 256

(***************************************************************************)
(* C38. No pushed signal value is lost: the pending FIFO of a message      *)
(* never holds more than one record, and after push_signals calls on the   *)
(* message followed by a get_payload every signal holds the clamped value  *)
(* of the last push that named it, also when several pushes naming         *)
(* different signals precede the get_payload: a push sets its own signal   *)
(* and leaves the others, and get_payload leaves and returns what the      *)
(* pushes stored.  Checked under DbcSpec.                                  *)
(***************************************************************************)
C38_AsStated ==
    /\ [](Len(signal_queues) <= 1)
    /\ [][PushStep /\ GetPayloadKeeps(SigNames)]_vars

\* C38 as it holds: for every signal but the alive counter and the CRC,
\* which get_payload computes itself (a pushed alive counter is
\* incremented, a pushed CRC is overwritten)
C38_NoPushLost ==
    /\ [](Len(signal_queues) <= 1)
    /\ [][PushStep /\ GetPayloadKeeps(PlainSignals)]_vars

\* two pushes naming different signals, then a get_payload that has taken
\* its snapshot: both values are held
C38_Witness ==
    /\ n_calls = 3
    /\ gp_pc = "crc"
    /\ current_signals["Speed"] = 3
    /\ current_signals["Free"] = 15
    /\ signals_snapshot["Speed"] = 3
    /\ signals_snapshot["Free"] = 15
    /\ last_push # <<>>

(***************************************************************************)
(* The task table under add_message.  The task of SchedInit is the one     *)
(* modelled line by line; a task add_message creates later is periodic     *)
(* without duration and is kept as a count: its thread is alive from       *)
(* task.start() until the stop() that stop_message calls on it has joined  *)
(* it.                                                                     *)
(***************************************************************************)
MaxAdds == 2

\* SmartCanMessageScheduler.add_message(MsgId, ...), lines 139-145
add_message ==
    /\ LockFree
    /\ added.calls < MaxAdds
    /\ IF MsgId \in tasks
       THEN /\ added' = [added EXCEPT !.calls = @ + 1]
            /\ UNCHANGED tasks
       ELSE /\ tasks' = tasks \cup {MsgId}
            /\ added' = [entry |-> TRUE, threads |-> added.threads + 1,
                                         calls |-> added.calls + 1]
    /\ UNCHANGED <<period, duration, running, stop_event, pause_event,
                   wake_event, in_burst_mode, burst_count, next_periodic_time,
                   perf_counter, t_pc, t_now, t_i, t_n, t_deadline,
                   exit_reason, st_pc, st_after_exit, bn_pc, bn_i, bn_n, sent,
                   accepted, n_triggers, used_pause, used_burst, paused_sends>>
    /\ UNCHANGED <<early, pz_pc, sa_pc, noop_stops, readerVars, tpVars, dbcVars, diagVars, traceVars, padVars>>

\* stop_message(MsgId), lines 148-151, when the table entry is a task that
\* was added later: the pop, task.stop() and the join, as one step
stop_message_added ==
    /\ LockFree
    /\ MsgId \in tasks
    /\ added.entry
    /\ tasks' = PopTask(tasks, MsgId)
    /\ added' = [added EXCEPT !.entry = FALSE, !.threads = @ - 1]
    /\ UNCHANGED <<period, duration, running, stop_event, pause_event,
                   wake_event, in_burst_mode, burst_count, next_periodic_time,
                   perf_counter, t_pc, t_now, t_i, t_n, t_deadline,
                   exit_reason, st_pc, st_after_exit, bn_pc, bn_i, bn_n, sent,
                   accepted, n_triggers, used_pause, used_burst, paused_sends>>
    /\ UNCHANGED <<early, pz_pc, sa_pc, noop_stops, readerVars, tpVars, dbcVars, diagVars, traceVars, padVars>>

TableNext ==
    \/ ThreadStep
    \/ TickPerf
    \/ add_message
    \/ ~added.entry /\ sched_stop_message
    \/ ~added.entry /\ stop_all_snapshot
    \/ \E count \in BurstCounts :
         ~added.entry /\ n_triggers = 0 /\ sched_trigger_burst(count)
    \/ burst_now_send
    \/ burst_now_wait
    \/ StopStep
    \/ stop_message_added
    \/ stop_all_snapshot_empty
    \/ stop_all_return_empty

TableSpec == SchedSpecInit /\ [][TableNext]_vars

\* the task threads of MsgId that are alive
ThreadsAlive == (IF t_pc # "exit" THEN 1 ELSE 0) + added.threads

\* add_message is called for an id that is in the table
AddRefused == add_message /\ MsgId \in tasks

(***************************************************************************)
(* C39. At most one task per message id: at most one task thread of an id  *)
(* is ever alive, and add_message for an id that is in the table, also     *)
(* when the task is a one-shot or duration-limited task whose loop has     *)
(* exited, starts no thread and leaves the table unchanged.  Checked under *)
(* TableSpec.                                                              *)
(***************************************************************************)
C39_OneTaskPerId ==
    /\ [](ThreadsAlive <= 1)
    /\ [](added.entry => MsgId \in tasks)
    /\ [][AddRefused => /\ tasks' = tasks
                        /\ ThreadsAlive' = ThreadsAlive
                        /\ added'.entry = added.entry]_vars

\* the stop() that stop_message() called has returned
StopReturned == st_pc = "returned"

(***************************************************************************)
(* C40. No send after stop: once MessageTask.stop() (or stop_message for   *)
(* the task's id) has returned, no further frame of the task is handed to  *)
(* the bus, in every interleaving with trigger_burst, pause and resume     *)
(* calls on the task, the immediate burst of an exited one-shot task       *)
(* included.  Checked under SchedSpec.                                     *)
(***************************************************************************)
C40_NoSendAfterStop == [][StopReturned => sent' = sent]_vars

====
